---- MODULE Spec2Model ----
(***************************************************************************)
(* Cloudera Copilot: the websocket chat backend (jupyter_ai/handlers.py),  *)
(* the provider listing filter, and the Cloudera AI Inference providers.   *)
(*                                                                         *)
(* Python dicts are insertion ordered: a dict is a sequence of             *)
(* [key, val] records.  Strings that the code inspects character by        *)
(* character (chat bodies, handler keys) are sequences of one-character    *)
(* strings.  Every coroutine step without an await is one atomic action    *)
(* of the single-threaded event loop.                                      *)
(***************************************************************************)
EXTENDS Integers, Sequences, FiniteSets, TLC

(***************************************************************************)
(* Bounds of the model.                                                    *)
(***************************************************************************)
\* RootChatHandler objects (websocket connections) that ever exist
MaxHandlers == 2
\* calls of broadcast_message in one behaviour
MaxBroadcasts == 3
\* routing tasks created in one behaviour
MaxTasks == 2
\* length of the chat bodies enumerated for _route
MaxBodyLen == 3
\* length of the provider list given to _filter_blocked_models
MaxProviders == 2
\* requests.post calls in one behaviour
MaxPosts == 2
\* length of the aiInferenceModels list of the configuration file
MaxModels == 2
\* length of the data list of an embeddings response
MaxEntries == 3
\* chat handlers registered in settings["jai_chat_handlers"]
MaxChatHandlers == 3
\* calls UsageTracker() in one behaviour
MaxConstructions == 3
\* calls of _SendCopilotEvent in one behaviour
MaxEvents == 3
\* websocket payloads delivered to on_message in one behaviour
MaxReceived == 3
\* rows of the largest terminal the rating UI is drawn in
MaxRows == 40
\* lines of the longest prompt or response shown by the rating UI
MaxTextLines == 10
\* chunks that llm_chain.stream yields before it ends or raises
MaxChunks == 2

Handlers == 1..MaxHandlers

VARIABLES
    hstate,               \* per handler object: "new", "open" (open() ran), "closing" (the
                          \* connection is closing, on_close() has not run), "closed" (on_close() ran)
    client_id,            \* per handler object: self.client_id (0: attribute not set)
    root_chat_handlers,   \* settings["jai_root_chat_handlers"]: dict client id -> handler
    chat_clients,         \* settings["chat_clients"]: dict client id -> ChatClient
    chat_history,         \* settings["chat_history"]: list of chat messages
    pending_messages,     \* settings["pending_messages"]: list of pending messages
    outbox,               \* per handler object: what write_message() has sent, in order
    tasks,                \* tasks created by loop.create_task(self._route(...))
    broadcasts            \* history variable: the arguments of broadcast_message, in call order

chatvars == <<hstate, client_id, root_chat_handlers, chat_clients, chat_history,
              pending_messages, outbox, tasks, broadcasts>>

VARIABLES
    route_body,           \* _route studied alone: message.body
    route_result          \* <<>> before the call, then <<its outcome>>

routevars == <<route_body, route_result>>

VARIABLES
    providers_in,         \* _filter_blocked_models studied alone: its argument
    blocked_models,       \* settings["blocked_models"]
    allowed_models,       \* settings["allowed_models"]
    filter_result         \* <<>> before the call, then <<its outcome>>

filtervars == <<providers_in, blocked_models, allowed_models, filter_result>>

VARIABLES
    jwt_file,             \* what is at jwt_path
    cdp_cli,              \* what running the CDP CLI gives
    lm_endpoint,          \* endpoint configured for the language model ("" as <<>>)
    em_endpoint,          \* endpoint configured for the embedding model ("" as <<>>)
    posts,                \* the requests.post calls made, in order
    returned              \* <<>>, or <<outcome of the last provider call>>

providervars == <<jwt_file, cdp_cli, lm_endpoint, em_endpoint, posts, returned>>

VARIABLES
    copilot_config,       \* what is at COPILOT_CONFIG_DIR
    discovered            \* per model type: <<>>, or <<what getCopilotModels returned>>

discoveryvars == <<copilot_config, discovered>>

VARIABLES
    api_data,             \* _extract_embedding_from_api_response studied alone: its argument
    extracted             \* <<>> before the call, then <<its outcome>>

extractvars == <<api_data, extracted>>

VARIABLES
    lm_provider,          \* config_manager.lm_provider: None, or <<the selected provider>>
    jai_chat_handlers,    \* settings["jai_chat_handlers"]: dict key -> chat handler
    slash_response        \* <<>> before SlashCommandsInfoHandler.get, then <<what it finished with>>

slashvars == <<lm_provider, jai_chat_handlers, slash_response>>

VARIABLES
    lm_providers,         \* settings["lm_providers"]: dict provider id -> provider
    em_providers,         \* settings["em_providers"]: dict provider id -> provider
    third_party_models,   \* what getConfiguredThirdPartyModels() returns
    listing_response      \* <<>> before a get of the provider lists, then <<its outcome>>

listingvars == <<lm_providers, em_providers, third_party_models, listing_response>>

VARIABLES
    engine_id,            \* UsageTracker.engine_id: os.getenv("CDSW_ENGINE_ID")
    singleton_instances,  \* Singleton._instances: dict class -> instance
    constructed,          \* the objects that the calls UsageTracker() returned, in call order
    copilot_events        \* the requests given to send_copilot_event, in order

trackervars == <<engine_id, singleton_instances, constructed, copilot_events>>

VARIABLES
    on_message_calls      \* history variable: the payloads on_message was called with, in
                          \* order, each with the way the call ended

inboxvars == <<on_message_calls>>

VARIABLES
    rating_pc,            \* GetRating.run_loop: "draw" (before self.draw), "getch" (waiting
                          \* for a key), "returned"; "idle" where no rating runs
    max_y,                \* rows of the terminal: screen.getmaxyx()[0]
    prompt_lines,         \* lines the wrapped prompt has (get_string's line_on at its end)
    resp_lines,           \* lines the wrapped AI response has
    prompt_line_on,       \* GetRating.prompt_line_on
    resp_line_on,         \* GetRating.resp_line_on
    max_prompt_line_on,   \* GetRating.max_prompt_line_on
    max_resp_line_on,     \* GetRating.max_resp_line_on
    current_rating,       \* GetRating.current_rating
    rating_result         \* <<>>, or <<what run_loop returned>>

ratingvars == <<rating_pc, max_y, prompt_lines, resp_lines, prompt_line_on, resp_line_on,
                max_prompt_line_on, max_resp_line_on, current_rating, rating_result>>

VARIABLES
    model_provider,       \* collect_streaming_data studied alone: its model_provider argument
    supports_streaming,   \* llm.supports_streaming
    llm_stream,           \* what llm_chain.stream does: the chunks it yields, then ends or raises
    llm_invoke,           \* what llm_chain.invoke does: returns a text or raises
    collected             \* <<>> before the call, then <<its outcome>>

collectvars == <<model_provider, supports_streaming, llm_stream, llm_invoke, collected>>

vars == <<chatvars, routevars, filtervars, providervars, discoveryvars, extractvars, slashvars, listingvars, trackervars, inboxvars, ratingvars, collectvars>>

\* the variables beside each part
beside_chat == <<routevars, filtervars, providervars, discoveryvars, extractvars, slashvars, listingvars, trackervars, inboxvars, ratingvars, collectvars>>
beside_route == <<chatvars, filtervars, providervars, discoveryvars, extractvars, slashvars, listingvars, trackervars, inboxvars, ratingvars, collectvars>>
beside_filter == <<chatvars, routevars, providervars, discoveryvars, extractvars, slashvars, listingvars, trackervars, inboxvars, ratingvars, collectvars>>
beside_provider == <<chatvars, routevars, filtervars, discoveryvars, extractvars, slashvars, listingvars, trackervars, inboxvars, ratingvars, collectvars>>
beside_discovery == <<chatvars, routevars, filtervars, providervars, extractvars, slashvars, listingvars, trackervars, inboxvars, ratingvars, collectvars>>
beside_extract == <<chatvars, routevars, filtervars, providervars, discoveryvars, slashvars, listingvars, trackervars, inboxvars, ratingvars, collectvars>>
beside_slash == <<chatvars, routevars, filtervars, providervars, discoveryvars, extractvars, listingvars, trackervars, inboxvars, ratingvars, collectvars>>
beside_listing == <<chatvars, routevars, filtervars, providervars, discoveryvars, extractvars, slashvars, trackervars, inboxvars, ratingvars, collectvars>>
beside_tracker == <<chatvars, routevars, filtervars, providervars, discoveryvars, extractvars, slashvars, listingvars, inboxvars, ratingvars, collectvars>>
beside_inbox == <<chatvars, routevars, filtervars, providervars, discoveryvars, extractvars, slashvars, listingvars, trackervars, ratingvars, collectvars>>
beside_rating == <<chatvars, routevars, filtervars, providervars, discoveryvars, extractvars, slashvars, listingvars, trackervars, inboxvars, collectvars>>
beside_collect == <<chatvars, routevars, filtervars, providervars, discoveryvars, extractvars, slashvars, listingvars, trackervars, inboxvars, ratingvars>>

(***************************************************************************)
(* Python built-ins used by the handlers.                                  *)
(***************************************************************************)
\* dict.keys()
DictKeys(d) == {d[i].key : i \in DOMAIN d}

\* d[k] = v : replaces the value in place, or appends a new key
DictSet(d, k, v) ==
    IF k \in DictKeys(d)
    THEN [i \in DOMAIN d |-> IF d[i].key = k THEN [key |-> k, val |-> v] ELSE d[i]]
    ELSE Append(d, [key |-> k, val |-> v])

\* variant: pop that leaves the dict as it is
DictPop_Keeps(d, k) == d

\* d.pop(k, None)
DictPop(d, k) == SelectSeq(d, LAMBDA e : e.key # k)

\* uuid.uuid4(): the n-th identifier drawn; no two draws are equal
Uuid(n) == 100 + n

(***************************************************************************)
(* Messages (jupyter_ai.models), as handlers.py uses them.  obj is the     *)
(* identity of the Python object: the number of the broadcast_message call *)
(* it was passed to.                                                       *)
(***************************************************************************)
ChatTypes == {"human", "agent", "agent-stream"}

Msg(type, id, body, complete, obj) ==
    [type |-> type, id |-> id, body |-> body, complete |-> complete, obj |-> obj]

\* ids and contents that chat handlers give to the messages they broadcast
MsgIds == {1, 2}
Contents == {<<"x">>, <<"y">>}

\* the messages a chat handler may pass to broadcast_message as its n-th call
AgentMsgs(n) ==
    {Msg("agent", i, <<"x">>, FALSE, n) : i \in {1}}
    \cup {Msg("agent-stream", i, <<>>, FALSE, n) : i \in MsgIds}
    \cup {Msg("agent-stream-chunk", i, c, c = <<"y">>, n) : i \in MsgIds, c \in Contents}
    \cup {Msg("pending", i, <<>>, FALSE, n) : i \in MsgIds}
    \cup {Msg("close-pending", i, <<>>, FALSE, n) : i \in MsgIds}

\* the one reply used beside connection churn and routing
AgentReply(n) == Msg("agent", 1, <<"x">>, FALSE, n)

(***************************************************************************)
(* RootChatHandler.open                                                    *)
(***************************************************************************)
\* variant: an id generator that repeats itself
generate_client_id_Repeats == Uuid(1)

\* generate_client_id(): a fresh uuid
generate_client_id == Uuid(Cardinality({h \in Handlers : hstate[h] # "new"}) + 1)

\* variant: a connection message that carries no history
ConnectionMessage_Empty(cid) ==
    [type |-> "connection", client_id |-> cid,
     history |-> [messages |-> <<>>, pending_messages |-> <<>>]]

\* ConnectionMessage(...).dict(): a copy of the two lists as they are now
ConnectionMessage(cid) ==
    [type |-> "connection", client_id |-> cid,
     history |-> [messages |-> chat_history, pending_messages |-> pending_messages]]

Open(h) ==
    /\ hstate[h] = "new"
    /\ LET cid == generate_client_id IN
        /\ root_chat_handlers' = DictSet(root_chat_handlers, cid, h)
        /\ chat_clients' = DictSet(chat_clients, cid, [id |-> cid])
        /\ client_id' = [client_id EXCEPT ![h] = cid]
        /\ outbox' = [outbox EXCEPT ![h] = Append(@, ConnectionMessage(cid))]
    /\ hstate' = [hstate EXCEPT ![h] = "open"]
    /\ UNCHANGED <<chat_history, pending_messages, tasks, broadcasts>>

(***************************************************************************)
(* The connection of a client starts closing (a close frame arrived or the *)
(* stream closed); tornado calls on_close() in a later callback, and until *)
(* then write_message() on the handler raises WebSocketClosedError.        *)
(***************************************************************************)
ConnectionCloses(h) ==
    /\ hstate[h] = "open"
    /\ hstate' = [hstate EXCEPT ![h] = "closing"]
    /\ UNCHANGED <<client_id, root_chat_handlers, chat_clients, chat_history,
                   pending_messages, outbox, tasks, broadcasts>>

(***************************************************************************)
(* RootChatHandler.on_close, for a connection that was opened; a repeated  *)
(* call is allowed.                                                        *)
(***************************************************************************)
OnClose(h) ==
    /\ hstate[h] \in {"open", "closing", "closed"}
    /\ root_chat_handlers' = DictPop(root_chat_handlers, client_id[h])
    /\ chat_clients' = DictPop(chat_clients, client_id[h])
    /\ hstate' = [hstate EXCEPT ![h] = "closed"]
    /\ UNCHANGED <<client_id, chat_history, pending_messages, outbox, tasks, broadcasts>>

(***************************************************************************)
(* RootChatHandler.broadcast_message                                       *)
(***************************************************************************)
\* client.write_message(...) raises WebSocketClosedError: the connection of
\* the handler is closing
WriteRaises(h) == hstate[h] = "closing"

\* the loop over root_chat_handlers.keys(): one write_message per key, up to
\* the first one that raises
RECURSIVE WriteToClients(_, _, _)
WriteToClients(d, m, ob) ==
    IF d = <<>> THEN ob
    ELSE IF WriteRaises(Head(d).val) THEN ob
    ELSE WriteToClients(Tail(d), m, [ob EXCEPT ![Head(d).val] = Append(@, m)])

\* the loop of broadcast_message ends by an exception, which nothing catches
BroadcastRaises ==
    \E i \in DOMAIN root_chat_handlers : WriteRaises(root_chat_handlers[i].val)

\* variant: a forward scan, which stops at the oldest match
StreamTarget_Oldest(hist, chunk) ==
    LET hits == {i \in DOMAIN hist :
                    hist[i].type = "agent-stream" /\ hist[i].id = chunk.id}
    IN IF hits = {} THEN 0 ELSE CHOOSE i \in hits : \A j \in hits : j >= i

\* the backwards scan for the stream message a chunk belongs to (0: none)
StreamTarget(hist, chunk) ==
    LET hits == {i \in DOMAIN hist :
                    hist[i].type = "agent-stream" /\ hist[i].id = chunk.id}
    IN IF hits = {} THEN 0 ELSE CHOOSE i \in hits : \A j \in hits : j <= i

\* variant: a scan without break, which updates every match
ApplyChunk_EveryMatch(hist, chunk) ==
    [i \in DOMAIN hist |->
        IF hist[i].type = "agent-stream" /\ hist[i].id = chunk.id
        THEN [hist[i] EXCEPT !.body = @ \o chunk.body, !.complete = chunk.complete]
        ELSE hist[i]]

\* stream_message.body += chunk.content; stream_message.complete = chunk.stream_complete
ApplyChunk(hist, chunk) ==
    LET t == StreamTarget(hist, chunk) IN
    IF t = 0 THEN hist
    ELSE [hist EXCEPT ![t] = [@ EXCEPT !.body = @ \o chunk.body,
                                       !.complete = chunk.complete]]

\* variant: chat messages inserted at the front of the history
HistoryAfter_Prepends(hist, m) ==
    IF m.type \in ChatTypes THEN <<m>> \o hist
    ELSE IF m.type = "agent-stream-chunk" THEN ApplyChunk(hist, m)
    ELSE hist

\* the isinstance chain of broadcast_message, on the chat history
HistoryAfter(hist, m) ==
    IF m.type \in ChatTypes THEN Append(hist, m)
    ELSE IF m.type = "agent-stream-chunk" THEN ApplyChunk(hist, m)
    ELSE hist

\* variant: ClosePendingMessage removes the pending messages of other ids
PendingAfter_ClosesOthers(pend, m) ==
    IF m.type \in ChatTypes \/ m.type = "agent-stream-chunk" THEN pend
    ELSE IF m.type = "pending" THEN Append(pend, m)
    ELSE IF m.type = "close-pending" THEN SelectSeq(pend, LAMBDA p : p.id = m.id)
    ELSE pend

\* the isinstance chain of broadcast_message, on the pending list
PendingAfter(pend, m) ==
    IF m.type \in ChatTypes \/ m.type = "agent-stream-chunk" THEN pend
    ELSE IF m.type = "pending" THEN Append(pend, m)
    ELSE IF m.type = "close-pending" THEN SelectSeq(pend, LAMBDA p : p.id # m.id)
    ELSE pend

broadcast_message(m) ==
    /\ outbox' = WriteToClients(root_chat_handlers, m, outbox)
    /\ chat_history' = IF BroadcastRaises THEN chat_history
                       ELSE HistoryAfter(chat_history, m)
    /\ pending_messages' = IF BroadcastRaises THEN pending_messages
                           ELSE PendingAfter(pending_messages, m)
    /\ broadcasts' = Append(broadcasts, m)

\* a chat handler (or any holder of a RootChatHandler) broadcasts m
Broadcast(m) ==
    /\ Len(broadcasts) < MaxBroadcasts
    /\ broadcast_message(m)
    /\ UNCHANGED <<hstate, client_id, root_chat_handlers, chat_clients, tasks>>

(***************************************************************************)
(* RootChatHandler.on_message and RootChatHandler._route                   *)
(***************************************************************************)
Whitespace == {" ", "\n"}

\* str.split(None, 1): the list of at most two pieces; only its length and
\* first element are used by _route
RECURSIVE LStrip(_)
LStrip(s) == IF s # <<>> /\ Head(s) \in Whitespace THEN LStrip(Tail(s)) ELSE s

RECURSIVE FirstToken(_)
FirstToken(s) ==
    IF s = <<>> \/ Head(s) \in Whitespace THEN <<>>
    ELSE <<Head(s)>> \o FirstToken(Tail(s))

\* body.split(None, 1): <<>> for an empty or blank body, else first token first
Split1(body) ==
    LET s == LStrip(body) IN
    IF s = <<>> THEN <<>>
    ELSE LET tok == FirstToken(s)
             rest == LStrip(SubSeq(s, Len(tok) + 1, Len(s)))
         IN IF rest = <<>> THEN <<tok>> ELSE <<tok, rest>>

\* body.startswith("/")
StartsWithSlash(body) == body # <<>> /\ Head(body) = "/"

\* keys of settings["jai_chat_handlers"]
DefaultKey == <<"d", "e", "f", "a", "u", "l", "t">>
ChatHandlerKeys == {DefaultKey, <<"/", "a">>, <<"/", "a", "x">>}

\* _route up to its await: the handlers whose on_message is invoked, in order,
\* or the exception that ends the task
RouteOutcome(body) ==
    LET parts == Split1(body) IN
    IF parts = <<>> THEN [raised |-> "IndexError", invoked |-> <<>>]
    ELSE LET maybe_command == parts[1]
             is_command == /\ StartsWithSlash(body)
                           /\ maybe_command \in ChatHandlerKeys
                           /\ maybe_command # DefaultKey
             command == IF is_command THEN maybe_command ELSE DefaultKey
         IN [raised |-> "none", invoked |-> <<command>>]

\* ChatRequest(**json.loads(message)) succeeds
Validates(payload) == "prompt" \in DOMAIN payload

\* variant: on_message drops the connection that sent an invalid payload
OnMessage_ClosesOnInvalid(h, payload) ==
    /\ hstate[h] = "open"
    /\ IF ~Validates(payload)
       THEN /\ root_chat_handlers' = DictPop(root_chat_handlers, client_id[h])
            /\ chat_clients' = DictPop(chat_clients, client_id[h])
            /\ UNCHANGED <<hstate, client_id, chat_history, pending_messages, outbox,
                           tasks, broadcasts>>
       ELSE /\ Len(tasks) < MaxTasks
            /\ Len(broadcasts) < MaxBroadcasts
            /\ LET n == Len(broadcasts) + 1
                   chat_message == Msg("human", Uuid(10 + n), payload.prompt, FALSE, n)
               IN /\ broadcast_message(chat_message)
                  /\ tasks' = IF BroadcastRaises THEN tasks
                              ELSE Append(tasks, [message |-> chat_message, owner |-> h,
                                                  pc |-> "scheduled", invoked |-> <<>>])
            /\ UNCHANGED <<hstate, client_id, root_chat_handlers, chat_clients>>

\* variant: on_message schedules _route and leaves the broadcast out
OnMessage_SchedulesOnly(h, payload) ==
    /\ hstate[h] = "open"
    /\ IF ~Validates(payload)
       THEN UNCHANGED chatvars
       ELSE /\ Len(tasks) < MaxTasks
            /\ Len(broadcasts) < MaxBroadcasts
            /\ LET n == Len(broadcasts) + 1
                   chat_message == Msg("human", Uuid(10 + n), payload.prompt, FALSE, n)
               IN tasks' = Append(tasks, [message |-> chat_message, owner |-> h,
                                          pc |-> "scheduled", invoked |-> <<>>])
            /\ UNCHANGED <<hstate, client_id, root_chat_handlers, chat_clients,
                           chat_history, pending_messages, outbox, broadcasts>>

\* variant: on_message awaits _route instead of scheduling it
OnMessage_AwaitsRoute(h, payload) ==
    /\ hstate[h] = "open"
    /\ IF ~Validates(payload)
       THEN UNCHANGED chatvars
       ELSE /\ Len(tasks) < MaxTasks
            /\ Len(broadcasts) < MaxBroadcasts
            /\ LET n == Len(broadcasts) + 1
                   chat_message == Msg("human", Uuid(10 + n), payload.prompt, FALSE, n)
                   out == RouteOutcome(payload.prompt)
               IN /\ broadcast_message(chat_message)
                  /\ tasks' = Append(tasks, [message |-> chat_message, owner |-> h,
                                             pc |-> IF out.raised = "none" THEN "done"
                                                    ELSE "failed",
                                             invoked |-> out.invoked])
            /\ UNCHANGED <<hstate, client_id, root_chat_handlers, chat_clients>>

OnMessage(h, payload) ==
    /\ hstate[h] = "open"
    /\ IF ~Validates(payload)
       THEN UNCHANGED chatvars
       ELSE /\ Len(tasks) < MaxTasks
            /\ Len(broadcasts) < MaxBroadcasts
            /\ LET n == Len(broadcasts) + 1
                   chat_message == Msg("human", Uuid(10 + n), payload.prompt, FALSE, n)
               IN /\ broadcast_message(chat_message)
                  /\ tasks' = IF BroadcastRaises THEN tasks
                              ELSE Append(tasks, [message |-> chat_message, owner |-> h,
                                                  pc |-> "scheduled", invoked |-> <<>>])
            /\ UNCHANGED <<hstate, client_id, root_chat_handlers, chat_clients>>

\* how a call of on_message ends for a payload: json.loads raises for text
\* that is no JSON, ChatRequest(**message) raises TypeError for a JSON
\* value that is no object, and a ValidationError is caught
OnMessageOutcome(payload) ==
    IF "text" \in DOMAIN payload THEN "JSONDecodeError"
    ELSE IF "array" \in DOMAIN payload THEN "TypeError"
    ELSE "returns"

\* the websocket delivers a payload to handler h: on_message runs
Receive(h, payload) ==
    /\ Len(on_message_calls) < MaxReceived
    /\ OnMessage(h, payload)
    /\ on_message_calls' = Append(on_message_calls,
                                  [payload |-> payload,
                                   outcome |-> OnMessageOutcome(payload)])

\* the event loop starts a scheduled _route task; it runs up to its await
Route(t) ==
    /\ t \in DOMAIN tasks
    /\ tasks[t].pc = "scheduled"
    /\ LET out == RouteOutcome(tasks[t].message.body) IN
        tasks' = [tasks EXCEPT ![t] = [@ EXCEPT
                    !.pc = IF out.raised = "none" THEN "awaiting" ELSE "failed",
                    !.invoked = out.invoked]]
    /\ UNCHANGED <<hstate, client_id, root_chat_handlers, chat_clients, chat_history,
                   pending_messages, outbox, broadcasts>>

\* the awaited chat handler returns and _route logs the latency
RouteReturn(t) ==
    /\ t \in DOMAIN tasks
    /\ tasks[t].pc = "awaiting"
    /\ tasks' = [tasks EXCEPT ![t] = [@ EXCEPT !.pc = "done"]]
    /\ UNCHANGED <<hstate, client_id, root_chat_handlers, chat_clients, chat_history,
                   pending_messages, outbox, broadcasts>>

\* the reply of a chat handler to the human message of task t, as the n-th
\* broadcast: an agent message that names the message it answers
ReplyTo(t, n) ==
    [type |-> "agent", id |-> Uuid(20 + n), body |-> <<"x">>, complete |-> FALSE,
     obj |-> n, reply_to |-> tasks[t].message.id]

\* the chat handler awaited by task t broadcasts a reply while it runs
HandlerReplies(t) ==
    /\ t \in DOMAIN tasks
    /\ tasks[t].pc = "awaiting"
    /\ Broadcast(ReplyTo(t, Len(broadcasts) + 1))

(***************************************************************************)
(* Optional values: None is <<>>, a value v is <<v>>.                      *)
(***************************************************************************)
None == <<>>
Some(v) == <<v>>

(***************************************************************************)
(* ProviderHandler._filter_blocked_models                                  *)
(***************************************************************************)
\* provider.id + ":" + local_model_id
ModelId(provider_id, local_model_id) == provider_id \o ":" \o local_model_id

InList(x, list) == \E i \in DOMAIN list : list[i] = x

\* truth value of an Optional[List[str]]: None and [] are false
Truthy(opt) == opt # None /\ opt[1] # <<>>

\* variant: the allowlist consulted before the blocklist
filter_predicate_AllowFirst(provider_id, local_model_id) ==
    IF allowed_models # None
    THEN InList(ModelId(provider_id, local_model_id), allowed_models[1])
    ELSE ~InList(ModelId(provider_id, local_model_id), blocked_models[1])

\* filter_predicate; called only where it does not raise
filter_predicate(provider_id, local_model_id) ==
    IF Truthy(blocked_models)
    THEN ~InList(ModelId(provider_id, local_model_id), blocked_models[1])
    ELSE InList(ModelId(provider_id, local_model_id), allowed_models[1])

\* list(filter(filter_predicate, models or []))
FilterModels(provider_id, models) ==
    SelectSeq(models, LAMBDA m : filter_predicate(provider_id, m))

\* the entry after the three assignments; its other fields are kept
FilteredEntry(p) ==
    [p EXCEPT !.models = FilterModels(p.id, p.models),
              !.chat_models = FilterModels(p.id, p.chat_models),
              !.completion_models = FilterModels(p.id, p.completion_models)]

\* the value _filter_blocked_models returns, or the exception it raises
FilterOutcome(providers) ==
    IF blocked_models = None /\ allowed_models = None
    THEN [raised |-> "none", providers |-> providers]
    ELSE IF /\ ~Truthy(blocked_models)
            /\ allowed_models = None
            /\ \E i \in DOMAIN providers :
                    providers[i].models \o providers[i].chat_models
                        \o providers[i].completion_models # <<>>
    THEN \* "model_id in self.allowed_models" with allowed_models None
         [raised |-> "TypeError", providers |-> <<>>]
    ELSE [raised |-> "none",
          providers |-> SelectSeq([i \in DOMAIN providers |-> FilteredEntry(providers[i])],
                                  LAMBDA p : Len(p.models) > 0)]

CallFilter ==
    /\ filter_result = <<>>
    /\ filter_result' = <<FilterOutcome(providers_in)>>
    /\ UNCHANGED <<providers_in, blocked_models, allowed_models>>

(***************************************************************************)
(* Token retrieval: auth.getAccessToken and                                *)
(* ClouderaAIInferenceLanguageModelProvider.GetCDPToken                    *)
(***************************************************************************)
JwtFiles == {"missing", "no_access_token", "token"}
CdpClis == {"missing", "fails", "empty_token", "token"}

\* getAccessToken(jwt_path): the token, or None
getAccessToken ==
    IF jwt_file = "missing" THEN None
    ELSE IF jwt_file = "token" THEN Some("jwt-token")
    ELSE None

\* GetCDPToken(): response['token'], or None
GetCDPToken ==
    IF cdp_cli = "missing" THEN None
    ELSE IF cdp_cli = "fails" THEN None
    ELSE IF cdp_cli = "empty_token" THEN Some("")
    ELSE Some("cdp-token")

\* "not cdp_token"
Falsy(token) == token = None \/ token = Some("")

(***************************************************************************)
(* Endpoints are paths, written as the sequence of their segments.         *)
(***************************************************************************)
Endpoints ==
    {<<>>, <<"v1", "chat", "completions">>, <<"v1", "completions">>,
     <<"v1", "embeddings">>, <<"v1", "models">>}

\* endpoint.find(pattern) != -1
Finds(endpoint, pattern) ==
    \E k \in 0..(Len(endpoint) - Len(pattern)) :
        SubSeq(endpoint, k + 1, k + Len(pattern)) = pattern

\* one requests.post call: who made it, the url, the headers, the JSON body
Post(by, endpoint, headers, request) ==
    [by |-> by, endpoint |-> endpoint, headers |-> headers, request |-> request]

(***************************************************************************)
(* The two request dialects.  A message is [kind, content] with kind       *)
(* "system", "human" or "ai" (any other BaseMessage).                      *)
(***************************************************************************)
Message(kind, content) == [kind |-> kind, content |-> content]

MessageLists ==
    {<<Message("human", "h")>>,
     <<Message("system", "s"), Message("human", "h"), Message("ai", "a")>>}

\* BuildChatCompletionMessage: one {"role", "content"} per message
BuildChatCompletionMessage(messages) ==
    [i \in DOMAIN messages |->
        [role |-> IF messages[i].kind = "system" THEN "system"
                  ELSE IF messages[i].kind = "human" THEN "user"
                  ELSE "assistant",
         content |-> messages[i].content]]

\* BuildCompletionPrompt: one string
RECURSIVE PromptOf(_)
PromptOf(messages) ==
    IF messages = <<>> THEN ""
    ELSE (IF Head(messages).kind = "system" THEN Head(messages).content \o "\n"
          ELSE IF Head(messages).kind = "human"
          THEN "\nHuman: " \o Head(messages).content
          ELSE "\nAI: " \o Head(messages).content) \o PromptOf(Tail(messages))

BuildCompletionPrompt(messages) == PromptOf(messages) \o "\nAI: "

(***************************************************************************)
(* ClouderaAIInferenceLanguageModelProvider._call and _stream              *)
(***************************************************************************)
EndpointError == "Error: unable to find endpoint"
TokenError == "Unable to get CDP Token"
RequestError == "Request to Cloudera AI Inference Service failed."

\* the dialect chosen for an endpoint ("none": no request is made)
Dialect(endpoint) ==
    IF Finds(endpoint, <<"chat", "completions">>) THEN "chat"
    ELSE IF Finds(endpoint, <<"completions">>) THEN "completions"
    ELSE "none"

\* the body of the request for the branch taken
LmRequest(endpoint, messages, stream) ==
    IF Dialect(endpoint) = "chat"
    THEN [messages |-> BuildChatCompletionMessage(messages), stream |-> stream]
    ELSE [prompt |-> BuildCompletionPrompt(messages), stream |-> stream]

\* what the service does with a non-streaming request
LmResponses == {"raises", "content", "no_content"}

LmCall(messages, response) ==
    /\ returned' = Some(
          IF lm_endpoint = <<>> THEN [fn |-> "_call", value |-> Some(EndpointError)]
          ELSE IF Falsy(GetCDPToken) THEN [fn |-> "_call", value |-> Some(TokenError)]
          ELSE IF Dialect(lm_endpoint) = "none" THEN [fn |-> "_call", value |-> None]
          ELSE IF response = "raises" THEN [fn |-> "_call", value |-> Some(RequestError)]
          ELSE IF response = "content" THEN [fn |-> "_call", value |-> Some("content")]
          ELSE [fn |-> "_call", value |-> None])
    /\ IF lm_endpoint # <<>> /\ ~Falsy(GetCDPToken) /\ Dialect(lm_endpoint) # "none"
       THEN /\ Len(posts) < MaxPosts
            /\ posts' = Append(posts,
                  Post("lm_call", lm_endpoint,
                       [Authorization |-> Some("Bearer " \o GetCDPToken[1])],
                       LmRequest(lm_endpoint, messages, FALSE)))
       ELSE UNCHANGED posts
    /\ UNCHANGED <<jwt_file, cdp_cli, lm_endpoint, em_endpoint>>

\* A line of a streamed response is the sequence of its parts: an optional
\* "data: " prefix, then nothing, or one payload: [DONE], text that is not
\* JSON, or a JSON object.
Prefix == [kind |-> "data: "]
Done == [kind |-> "[DONE]"]
Junk == [kind |-> "junk"]
Json(obj) == [kind |-> "json", obj |-> obj]

\* JSON objects of the two dialects
ChatDelta(content) == Json([choices |-> <<[delta |-> [content |-> content]]>>])
RoleDelta == Json([choices |-> <<[delta |-> [role |-> "assistant"]]>>])
TextChoice(text) == Json([choices |-> <<[text |-> text]>>])
NoChoices == Json([id |-> "cmpl-1"])
EmptyChoices == Json([choices |-> <<>>])

Data(payload) == <<Prefix, payload>>

\* line.decode('utf-8').removeprefix("data: ")
RemovePrefix(line) ==
    IF line # <<>> /\ Head(line).kind = "data: " THEN Tail(line) ELSE line

\* the test that guards the yield, in each branch; called where choices
\* is not empty
HasChunk(obj, dialect) ==
    /\ "choices" \in DOMAIN obj
    /\ IF dialect = "chat"
       THEN /\ "delta" \in DOMAIN obj.choices[1]
            /\ "content" \in DOMAIN obj.choices[1].delta
       ELSE "text" \in DOMAIN obj.choices[1]

ChunkOf(obj, dialect) ==
    IF dialect = "chat" THEN obj.choices[1].delta.content ELSE obj.choices[1].text

\* variant: [DONE] skipped like an empty line
RECURSIVE StreamLoop_IgnoresDone(_, _)
StreamLoop_IgnoresDone(lines, dialect) ==
    IF lines = <<>> THEN [yielded |-> <<>>, raised |-> "none"]
    ELSE LET decoded_line == RemovePrefix(Head(lines)) IN
         IF decoded_line = <<>> \/ decoded_line[1].kind = "[DONE]"
         THEN StreamLoop_IgnoresDone(Tail(lines), dialect)
         ELSE IF decoded_line[1].kind = "junk"
         THEN [yielded |-> <<>>, raised |-> "JSONDecodeError"]
         ELSE IF "choices" \in DOMAIN decoded_line[1].obj
                    /\ decoded_line[1].obj.choices = <<>>
         THEN [yielded |-> <<>>, raised |-> "IndexError"]
         ELSE LET rest == StreamLoop_IgnoresDone(Tail(lines), dialect) IN
              IF HasChunk(decoded_line[1].obj, dialect)
              THEN [yielded |-> <<ChunkOf(decoded_line[1].obj, dialect)>> \o rest.yielded,
                    raised |-> rest.raised]
              ELSE rest

\* the loop over r.iter_lines(): the chunks yielded, and the exception that
\* ends the generator if one does
RECURSIVE StreamLoop(_, _)
StreamLoop(lines, dialect) ==
    IF lines = <<>> THEN [yielded |-> <<>>, raised |-> "none"]
    ELSE LET decoded_line == RemovePrefix(Head(lines)) IN
         IF decoded_line = <<>> THEN StreamLoop(Tail(lines), dialect)
         ELSE IF decoded_line[1].kind = "[DONE]"
         THEN [yielded |-> <<>>, raised |-> "none"]
         ELSE IF decoded_line[1].kind = "junk"
         THEN [yielded |-> <<>>, raised |-> "JSONDecodeError"]
         ELSE IF "choices" \in DOMAIN decoded_line[1].obj
                    /\ decoded_line[1].obj.choices = <<>>
         THEN [yielded |-> <<>>, raised |-> "IndexError"]
         ELSE LET rest == StreamLoop(Tail(lines), dialect) IN
              IF HasChunk(decoded_line[1].obj, dialect)
              THEN [yielded |-> <<ChunkOf(decoded_line[1].obj, dialect)>> \o rest.yielded,
                    raised |-> rest.raised]
              ELSE rest

\* what the service does with a streaming request
LmStreams ==
    {[kind |-> "raises"]} \cup
    {[kind |-> "lines", lines |-> ls] : ls \in
        {<<>>,
         <<Data(RoleDelta), <<>>, Data(ChatDelta("x")), <<>>, Data(ChatDelta("y")),
           Data(Done)>>,
         <<Data(ChatDelta("x")), <<Prefix>>, <<Done>>, Data(ChatDelta("y"))>>,
         <<<<ChatDelta("y")>>, Data(NoChoices), Data(ChatDelta("x"))>>,
         <<Data(TextChoice("x")), <<>>, Data(TextChoice("y")), Data(Done),
           Data(TextChoice("x"))>>,
         <<Data(TextChoice("x")), Data(Junk), Data(TextChoice("y"))>>,
         <<Data(ChatDelta("x")), Data(EmptyChoices), Data(Done)>>}}

\* _stream is a generator: value is what its return statement gives
\* (carried by StopIteration), yielded what its consumer receives, raised
\* the exception that ends it
StreamOutcome(value, loop) ==
    [fn |-> "_stream", value |-> value, yielded |-> loop.yielded,
     raised |-> loop.raised, lines |-> loop.lines]

NoLines == [yielded |-> <<>>, raised |-> "none", lines |-> <<>>]

LmStream(messages, stream) ==
    /\ returned' = Some(
          IF lm_endpoint = <<>> THEN StreamOutcome(Some(EndpointError), NoLines)
          ELSE IF Falsy(GetCDPToken) THEN StreamOutcome(Some(TokenError), NoLines)
          ELSE IF Dialect(lm_endpoint) = "none" THEN StreamOutcome(None, NoLines)
          ELSE IF stream.kind = "raises" THEN StreamOutcome(Some(RequestError), NoLines)
          ELSE LET loop == StreamLoop(stream.lines, Dialect(lm_endpoint)) IN
               StreamOutcome(None, [yielded |-> loop.yielded, raised |-> loop.raised,
                                    lines |-> stream.lines]))
    /\ IF lm_endpoint # <<>> /\ ~Falsy(GetCDPToken) /\ Dialect(lm_endpoint) # "none"
       THEN /\ Len(posts) < MaxPosts
            /\ posts' = Append(posts,
                  Post("lm_stream", lm_endpoint,
                       [Authorization |-> Some("Bearer " \o GetCDPToken[1])],
                       LmRequest(lm_endpoint, messages, TRUE)))
       ELSE UNCHANGED posts
    /\ UNCHANGED <<jwt_file, cdp_cli, lm_endpoint, em_endpoint>>

(***************************************************************************)
(* ClouderaAIInferenceEmbeddingModelProvider._call                         *)
(***************************************************************************)
Entry(object, index, embedding) ==
    [object |-> object, index |-> index, embedding |-> embedding]

\* variant: each embedding stored at the position its entry arrives at
RECURSIVE ExtractLoop_ArrivalOrder(_, _, _)
ExtractLoop_ArrivalOrder(entries, expected_indices, embeddings) ==
    IF entries = <<>>
    THEN IF expected_indices # {}
         THEN [raised |-> "RuntimeError", embeddings |-> <<>>]
         ELSE [raised |-> "none", embeddings |-> embeddings]
    ELSE LET e == Head(entries) IN
         IF "object" \notin DOMAIN e \/ e.object # "embedding"
         THEN ExtractLoop_ArrivalOrder(Tail(entries), expected_indices, embeddings)
         ELSE IF ~({"index", "embedding"} \subseteq DOMAIN e)
         THEN [raised |-> "RuntimeError", embeddings |-> <<>>]
         ELSE IF e.index \notin expected_indices
         THEN [raised |-> "RuntimeError", embeddings |-> <<>>]
         ELSE ExtractLoop_ArrivalOrder(Tail(entries), expected_indices \ {e.index},
                  [embeddings EXCEPT ![Len(embeddings) - Len(entries) + 1] = e.embedding])

\* the loop of _extract_embedding_from_api_response over the entries left
RECURSIVE ExtractLoop(_, _, _)
ExtractLoop(entries, expected_indices, embeddings) ==
    IF entries = <<>>
    THEN IF expected_indices # {}
         THEN [raised |-> "RuntimeError", embeddings |-> <<>>]
         ELSE [raised |-> "none", embeddings |-> embeddings]
    ELSE LET e == Head(entries) IN
         IF "object" \notin DOMAIN e \/ e.object # "embedding"
         THEN ExtractLoop(Tail(entries), expected_indices, embeddings)
         ELSE IF ~({"index", "embedding"} \subseteq DOMAIN e)
         THEN [raised |-> "RuntimeError", embeddings |-> <<>>]
         ELSE IF e.index \notin expected_indices
         THEN [raised |-> "RuntimeError", embeddings |-> <<>>]
         ELSE ExtractLoop(Tail(entries), expected_indices \ {e.index},
                          [embeddings EXCEPT ![e.index + 1] = e.embedding])

\* embeddings = [[]] * len(response_data); expected_indices = set(range(len))
_extract_embedding_from_api_response(response_data) ==
    ExtractLoop(response_data, 0..(Len(response_data) - 1),
                [i \in 1..Len(response_data) |-> <<>>])

\* what the service answers to an embeddings request
EmResponses ==
    {[kind |-> "raises"], [kind |-> "not_ok"], [kind |-> "not_json"], [kind |-> "no_data"]}
    \cup {[kind |-> "data", data |-> d] : d \in
            {<<>>,
             <<Entry("embedding", 0, <<1>>)>>,
             <<Entry("embedding", 1, <<2>>), Entry("embedding", 0, <<1>>)>>,
             <<Entry("embedding", 0, <<1>>), Entry("list", 1, <<2>>)>>,
             <<Entry("embedding", 0, <<1>>), Entry("embedding", 0, <<2>>)>>,
             <<[object |-> "embedding", embedding |-> <<1>>]>>}}

\* the call studied alone
CallExtract ==
    /\ extracted = <<>>
    /\ extracted' = <<_extract_embedding_from_api_response(api_data)>>
    /\ UNCHANGED api_data

Modes == {"passage", "query", "other"}
Texts == {<<>>, <<"t">>, <<"t", "u">>}

\* variant: the number of embeddings is not compared with the number of texts
EmOutcome_AnyLength(texts, mode, response) ==
    IF em_endpoint = <<>> THEN [fn |-> "_call", raised |-> "ValueError", value |-> <<>>]
    ELSE IF mode \notin {"passage", "query"}
    THEN [fn |-> "_call", raised |-> "ValueError", value |-> <<>>]
    ELSE IF response.kind \in {"raises", "not_ok", "not_json"}
    THEN [fn |-> "_call", raised |-> "RuntimeError", value |-> <<>>]
    ELSE IF response.kind = "no_data"
    THEN [fn |-> "_call", raised |-> "KeyError", value |-> <<>>]
    ELSE LET ex == _extract_embedding_from_api_response(response.data) IN
         IF ex.raised # "none"
         THEN [fn |-> "_call", raised |-> ex.raised, value |-> <<>>]
         ELSE [fn |-> "_call", raised |-> "none", value |-> ex.embeddings]

\* what _call(texts, mode) returns or raises
EmOutcome(texts, mode, response) ==
    IF em_endpoint = <<>> THEN [fn |-> "_call", raised |-> "ValueError", value |-> <<>>]
    ELSE IF mode \notin {"passage", "query"}
    THEN [fn |-> "_call", raised |-> "ValueError", value |-> <<>>]
    ELSE IF response.kind \in {"raises", "not_ok", "not_json"}
    THEN [fn |-> "_call", raised |-> "RuntimeError", value |-> <<>>]
    ELSE IF response.kind = "no_data"
    THEN [fn |-> "_call", raised |-> "KeyError", value |-> <<>>]
    ELSE LET ex == _extract_embedding_from_api_response(response.data) IN
         IF ex.raised # "none"
         THEN [fn |-> "_call", raised |-> ex.raised, value |-> <<>>]
         ELSE IF Len(ex.embeddings) # Len(texts)
         THEN [fn |-> "_call", raised |-> "RuntimeError", value |-> <<>>]
         ELSE [fn |-> "_call", raised |-> "none", value |-> ex.embeddings]

\* the request _call sends, once the endpoint and the mode are accepted
EmSend(texts, mode) ==
    IF em_endpoint # <<>> /\ mode \in {"passage", "query"}
    THEN /\ Len(posts) < MaxPosts
         /\ posts' = Append(posts,
               Post("em_call", em_endpoint, [Bearer |-> getAccessToken],
                    [input |-> texts, model |-> "model_id-" \o mode]))
    ELSE UNCHANGED posts

\* the outcome of an embedding call as its caller sees it; texts and
\* response record what the call was given
EmReturned(fn, raised, value, texts, response) ==
    [fn |-> fn, raised |-> raised, value |-> value, texts |-> texts,
     response |-> response]

\* _call(texts, mode)
EmCall(texts, mode, response) ==
    /\ LET o == EmOutcome(texts, mode, response) IN
       returned' = Some(EmReturned("em_call", o.raised, o.value, texts, response))
    /\ EmSend(texts, mode)
    /\ UNCHANGED <<jwt_file, cdp_cli, lm_endpoint, em_endpoint>>

\* embed_documents(texts): self._call(texts, "passage")
EmbedDocuments(texts, response) ==
    /\ LET o == EmOutcome(texts, "passage", response) IN
       returned' = Some(EmReturned("embed_documents", o.raised, o.value, texts, response))
    /\ EmSend(texts, "passage")
    /\ UNCHANGED <<jwt_file, cdp_cli, lm_endpoint, em_endpoint>>

\* embed_query(text): self._call([text], "query")[0]
EmbedQuery(text, response) ==
    /\ LET o == EmOutcome(<<text>>, "query", response) IN
       returned' = Some(
          IF o.raised # "none"
          THEN EmReturned("embed_query", o.raised, <<>>, <<text>>, response)
          ELSE IF o.value = <<>>
          THEN EmReturned("embed_query", "IndexError", <<>>, <<text>>, response)
          ELSE EmReturned("embed_query", "none", o.value[1], <<text>>, response))
    /\ EmSend(<<text>>, "query")
    /\ UNCHANGED <<jwt_file, cdp_cli, lm_endpoint, em_endpoint>>

(***************************************************************************)
(* model_discovery.getCopilotModels                                        *)
(***************************************************************************)
\* variant: any endpoint that mentions embeddings
EndsWithEmbeddings_Contains(endpoint) == Finds(endpoint, <<"embeddings">>)

\* model["endpoint"].endswith("/embeddings")
EndsWithEmbeddings(endpoint) ==
    Len(endpoint) >= 2 /\ endpoint[Len(endpoint)] = "embeddings"

ModelTypes == {"inference", "embedding"}

\* the aiInferenceModels read from the file; [] when the path is empty or
\* missing, the document is empty or has no (or an empty) aiInferenceModels
ConfiguredModels ==
    IF copilot_config.kind = "json" /\ "aiInferenceModels" \in DOMAIN copilot_config.doc
    THEN copilot_config.doc.aiInferenceModels
    ELSE <<>>

\* getCopilotModels(config_dir, model_type)
getCopilotModels(model_type) ==
    IF model_type \notin {"inference", "embedding"}
    THEN [raised |-> "ValueError", ai_inference_models |-> <<>>, models |-> <<>>]
    ELSE LET ai_inference_models ==
                IF model_type = "inference"
                THEN SelectSeq(ConfiguredModels,
                               LAMBDA model : ~EndsWithEmbeddings(model.endpoint))
                ELSE SelectSeq(ConfiguredModels,
                               LAMBDA model : EndsWithEmbeddings(model.endpoint))
         IN [raised |-> "none",
             ai_inference_models |-> ai_inference_models,
             models |-> [i \in DOMAIN ai_inference_models |-> ai_inference_models[i].name]]

\* one call, as the class bodies of the two providers make it
Discover(model_type) ==
    /\ discovered[model_type] = <<>>
    /\ discovered' = [discovered EXCEPT ![model_type] = <<getCopilotModels(model_type)>>]
    /\ UNCHANGED copilot_config

\* a call with a model type that does not exist
DiscoverUnknown ==
    /\ discovered["other"] = <<>>
    /\ discovered' = [discovered EXCEPT !["other"] = <<getCopilotModels("other")>>]
    /\ UNCHANGED copilot_config

(***************************************************************************)
(* SlashCommandsInfoHandler.get                                            *)
(***************************************************************************)
\* ord() of the one-letter slash ids, by which Python compares them
Ord(c) == IF c = "a" THEN 97 ELSE IF c = "b" THEN 98 ELSE 99

\* variant: the list delivered in registration order
SortBySlashId_Unsorted(list) == list

\* list.sort(key=lambda sc: sc.slash_id): stable, ascending
RECURSIVE SortBySlashId(_)
SortBySlashId(list) ==
    IF list = <<>> THEN <<>>
    ELSE LET sorted == SortBySlashId(SubSeq(list, 1, Len(list) - 1))
             sc == list[Len(list)]
             \* sc goes after every entry whose slash id is not greater
             before == SelectSeq(sorted, LAMBDA e : Ord(e.slash_id) <= Ord(sc.slash_id))
             after == SelectSeq(sorted, LAMBDA e : Ord(e.slash_id) > Ord(sc.slash_id))
         IN before \o <<sc>> \o after

\* the loop over self.chat_handlers.items()
RECURSIVE SlashCommandsOf(_, _)
SlashCommandsOf(handlers, unsupported_slash_commands) ==
    IF handlers = <<>> THEN <<>>
    ELSE LET id == Head(handlers).key
             chat_handler == Head(handlers).val
             rest == SlashCommandsOf(Tail(handlers), unsupported_slash_commands)
         IN IF id = "default" \/ chat_handler.routing_method # "slash_command"
            THEN rest
            ELSE IF ("/" \o chat_handler.slash_id) \in unsupported_slash_commands
            THEN rest
            ELSE <<[slash_id |-> chat_handler.slash_id,
                    description |-> chat_handler.help]>> \o rest

SlashCommandsGet ==
    /\ slash_response = <<>>
    /\ slash_response' =
          <<IF lm_provider = None THEN <<>>
            ELSE SortBySlashId(SlashCommandsOf(jai_chat_handlers,
                                               lm_provider[1].unsupported_slash_commands))>>
    /\ UNCHANGED <<lm_provider, jai_chat_handlers>>

(***************************************************************************)
(* ModelProviderHandler.get and EmbeddingsModelProviderHandler.get.        *)
(* A provider is [id, id_parts, name, models, chat_models,                 *)
(* completion_models]: id_parts is the id cut into the parts that the      *)
(* substring test looks for, the last two are what chat_models() and       *)
(* completion_models() return.                                             *)
(***************************************************************************)
\* "bedrock" in provider.id
ContainsBedrock(provider) == Finds(provider.id_parts, <<"bedrock">>)

\* [model['name'] for model in models] if models else []
ConfiguredModelNames == [i \in DOMAIN third_party_models |-> third_party_models[i].name]

\* variant: the configuration is not consulted
EnabledModels_All(provider) == provider.models

\* enabled_models
EnabledModels(provider) ==
    IF ContainsBedrock(provider)
    THEN SelectSeq(provider.models, LAMBDA model : InList(model, ConfiguredModelNames))
    ELSE provider.models

\* the ListProvidersEntry of ModelProviderHandler.get
LmEntry(provider) ==
    [id |-> provider.id,
     name |-> provider.name,
     models |-> EnabledModels(provider),
     chat_models |-> SelectSeq(provider.chat_models,
                               LAMBDA model : InList(model, EnabledModels(provider))),
     completion_models |-> SelectSeq(provider.completion_models,
                               LAMBDA model : InList(model, EnabledModels(provider)))]

\* the ListProvidersEntry of EmbeddingsModelProviderHandler.get: chat_models
\* and completion_models are not given, and hold no model
EmEntry(provider) ==
    [id |-> provider.id,
     name |-> provider.name,
     models |-> EnabledModels(provider),
     chat_models |-> <<>>,
     completion_models |-> <<>>]

\* the loop over the registry: one entry per bedrock or cloudera provider
RECURSIVE GatherProviders(_, _)
GatherProviders(registry, em) ==
    IF registry = <<>> THEN <<>>
    ELSE LET provider == Head(registry).val
             rest == GatherProviders(Tail(registry), em)
         IN IF ~ContainsBedrock(provider) /\ provider.id # "cloudera"
            THEN rest
            ELSE <<IF em THEN EmEntry(provider) ELSE LmEntry(provider)>> \o rest

\* sorted(providers, key=lambda p: p.name): stable, ascending
RECURSIVE SortByName(_)
SortByName(list) ==
    IF list = <<>> THEN <<>>
    ELSE LET sorted == SortByName(SubSeq(list, 1, Len(list) - 1))
             p == list[Len(list)]
             before == SelectSeq(sorted, LAMBDA e : Ord(e.name) <= Ord(p.name))
             after == SelectSeq(sorted, LAMBDA e : Ord(e.name) > Ord(p.name))
         IN before \o <<p>> \o after

\* what a get finishes with, or the exception that ends it
ListingOutcome(by, registry, em) ==
    LET filtered == FilterOutcome(GatherProviders(registry, em)) IN
    [by |-> by, raised |-> filtered.raised, providers |-> SortByName(filtered.providers)]

ModelProviderGet ==
    /\ listing_response = <<>>
    /\ listing_response' = <<ListingOutcome("lm", lm_providers, FALSE)>>
    /\ UNCHANGED <<lm_providers, em_providers, third_party_models>>

EmbeddingsModelProviderGet ==
    /\ listing_response = <<>>
    /\ listing_response' = <<ListingOutcome("em", em_providers, TRUE)>>
    /\ UNCHANGED <<lm_providers, em_providers, third_party_models>>

(***************************************************************************)
(* usage_tracking.UsageTracker.  Objects are numbered in the order of      *)
(* their creation.  In Python 3 a class attribute named __metaclass__ has  *)
(* no effect: the metaclass of UsageTracker is type, so UsageTracker()     *)
(* runs type.__call__, and Singleton.__call__ is never entered.            *)
(***************************************************************************)
\* UsageTracker(): type.__call__ makes a new object
UsageTrackerCall ==
    [instance |-> Len(constructed) + 1, instances |-> singleton_instances]

ConstructUsageTracker ==
    /\ Len(constructed) < MaxConstructions
    /\ constructed' = Append(constructed, UsageTrackerCall.instance)
    /\ singleton_instances' = UsageTrackerCall.instances
    /\ UNCHANGED <<engine_id, copilot_events>>

\* tracker._SendCopilotEvent(req)
SendCopilotEvent(tracker, req) ==
    /\ Len(copilot_events) < MaxEvents
    /\ copilot_events' = Append(copilot_events,
                                [by |-> tracker,
                                 req |-> [event_type |-> req.event_type,
                                          engine_id |-> engine_id]])
    /\ UNCHANGED <<engine_id, singleton_instances, constructed>>

(***************************************************************************)
(* GetRating (tests/get_rating.py): the terminal UI that asks for a        *)
(* rating.  Texts are given by the number of lines they wrap to.           *)
(***************************************************************************)
Min(a, b) == IF a < b THEN a ELSE b
Max(a, b) == IF a > b THEN a ELSE b

\* GetRating.options
options == <<"Unacceptable", "Low Quality", "Helpful", "Human Level", "Beyond">>

\* the rows get_string yields for a text of `total` lines: a blank row, the
\* lines of the window (all lines for num_lines = -1) padded to
\* min(num_lines, total), a blank row and the border
BoxRows(num_lines, total) ==
    IF num_lines = -1 THEN total + 3 ELSE Min(num_lines, total) + 3

\* rows of a title drawn by get_title, and lines of the expected response
TitleRows == 3
ExpectedLines == 1

\* screen.addstr(y, 0, line) with a line as wide as the window raises
\* curses.error from the last row on
AddstrRaises(y) == y >= max_y - 1

\* max_num_lines of the prompt box
PromptWindow == Max(5, max_y \div 5)

\* y when the prompt box is complete, and when the response box starts
PromptEnd == TitleRows + BoxRows(PromptWindow, prompt_lines)
RespStart == PromptEnd + 1 + TitleRows + BoxRows(-1, ExpectedLines) + 1 + TitleRows

\* max_num_lines of the response box
RespWindow == max_y - RespStart - 7

\* GetRating.draw: the two maxima are assigned when the drawing gets as far
\* as their boxes; an addstr that raises, or a response window without
\* rows, ends it with draw_not_enough_lines
Draw ==
    /\ rating_pc = "draw"
    /\ max_prompt_line_on' =
          IF AddstrRaises(PromptEnd - 1) THEN max_prompt_line_on
          ELSE prompt_lines - PromptWindow
    /\ max_resp_line_on' =
          IF AddstrRaises(PromptEnd - 1) \/ AddstrRaises(RespStart - 1) \/ RespWindow < 1
          THEN max_resp_line_on
          ELSE resp_lines - RespWindow
    /\ rating_pc' = "getch"
    /\ UNCHANGED <<max_y, prompt_lines, resp_lines, prompt_line_on, resp_line_on,
                   current_rating, rating_result>>

\* the keys run_loop tells apart; "resize" is curses.KEY_RESIZE, which
\* getch returns when the terminal got a new size
Keys == {"enter", "w", "s", "a", "d", "up", "down", "resize"}

\* the rest of one iteration of run_loop: getch returns key
GetKey(key, rows) ==
    /\ rating_pc = "getch"
    /\ max_y' = IF key = "resize" THEN rows ELSE max_y
    /\ IF key = "enter"
       THEN /\ rating_result' = Some(current_rating)
            /\ rating_pc' = "returned"
            /\ UNCHANGED <<prompt_line_on, resp_line_on, current_rating>>
       ELSE /\ prompt_line_on' =
                  IF key = "w" THEN Max(0, prompt_line_on - 1)
                  ELSE IF key = "s" THEN Min(max_prompt_line_on, prompt_line_on + 1)
                  ELSE prompt_line_on
            /\ current_rating' =
                  IF key = "a" THEN Max(0, current_rating - 1)
                  ELSE IF key = "d" THEN Min(Len(options) - 1, current_rating + 1)
                  ELSE current_rating
            /\ resp_line_on' =
                  IF key = "up" THEN Max(0, resp_line_on - 1)
                  ELSE IF key = "down" THEN Min(max_resp_line_on, resp_line_on + 1)
                  ELSE resp_line_on
            /\ rating_pc' = "draw"
            /\ UNCHANGED rating_result
    /\ UNCHANGED <<prompt_lines, resp_lines, max_prompt_line_on, max_resp_line_on>>

(***************************************************************************)
(* collect_streaming_data (tests/evaluate_models.py) and StreamingData     *)
(* (tests/utils.py).  Texts are sequences of one-character strings.        *)
(***************************************************************************)
\* a measured duration, time.time_ns() - start_time: a call of the model
\* takes time
Elapsed == 7

\* str(e) of the exception raised by llm_chain.stream and by llm_chain.invoke
StreamError == <<"s">>
InvokeError == <<"i">>

\* StreamingData(prompt=..., ...): the defaults of the dataclass; the fields
\* with init=False do not exist before populate()
StreamingData(prompt) ==
    [prompt |-> prompt, generation |-> <<>>, time_to_first_chunk_ns |-> -1,
     total_response_time_ns |-> -1, num_generation_chunks |-> 0, rating |-> -1,
     errors_in_jupyterai |-> FALSE, error_message |-> <<>>]

\* text.encode('unicode_escape').decode()
RECURSIVE UnicodeEscape(_)
UnicodeEscape(text) ==
    IF text = <<>> THEN <<>>
    ELSE (IF Head(text) = "\n" THEN <<"\\", "n">>
          ELSE IF Head(text) = "\\" THEN <<"\\", "\\">>
          ELSE <<Head(text)>>) \o UnicodeEscape(Tail(text))

\* text.encode().decode('unicode_escape')
RECURSIVE UnicodeUnescape(_)
UnicodeUnescape(text) ==
    IF text = <<>> THEN <<>>
    ELSE IF Head(text) = "\\" /\ Len(text) >= 2 /\ text[2] = "n"
         THEN <<"\n">> \o UnicodeUnescape(Tail(Tail(text)))
    ELSE IF Head(text) = "\\" /\ Len(text) >= 2 /\ text[2] = "\\"
         THEN <<"\\">> \o UnicodeUnescape(Tail(Tail(text)))
    ELSE <<Head(text)>> \o UnicodeUnescape(Tail(text))

\* StreamingData.get_generation
get_generation(data) == UnicodeUnescape(data.generation)

\* len(text.split())
RECURSIVE WordCount(_)
WordCount(text) ==
    LET s == LStrip(text) IN
    IF s = <<>> THEN 0
    ELSE 1 + WordCount(SubSeq(s, Len(FirstToken(s)) + 1, Len(s)))

\* StreamingData.populate; a rate is kept as <<dividend, divisor>>
populate(data) ==
    [data EXCEPT !.prompt = UnicodeEscape(@),
                 !.generation = UnicodeEscape(@),
                 !.error_message = UnicodeEscape(@)]
    @@ [total_generation_words |-> WordCount(data.generation),
        chunk_generation_rate |->
            <<data.num_generation_chunks, data.total_response_time_ns>>,
        word_generation_rate |->
            <<WordCount(data.generation), data.total_response_time_ns>>]

\* the chunk a provider's stream yields for a piece of text, and process_chunk
ChunkOfText(provider, text) ==
    IF provider = "bedrock" THEN text ELSE [content |-> text]

process_chunk(provider, chunk) ==
    IF provider = "bedrock" THEN chunk ELSE chunk.content

\* the body of the for loop of collect_streaming, for the chunks yielded
RECURSIVE StreamChunks(_, _)
StreamChunks(data, chunks) ==
    IF chunks = <<>> THEN data
    ELSE StreamChunks(
            [data EXCEPT
                !.time_to_first_chunk_ns =
                    IF data.num_generation_chunks = 0 THEN Elapsed ELSE @,
                !.generation = @ \o process_chunk(model_provider, Head(chunks)),
                !.num_generation_chunks = @ + 1],
            Tail(chunks))

\* collect_streaming(data): data as it leaves it, and whether it raised
collect_streaming(data) ==
    LET streamed == StreamChunks(data, llm_stream.chunks) IN
    IF llm_stream.raises THEN [data |-> streamed, raised |-> TRUE]
    ELSE [data |-> [streamed EXCEPT !.total_response_time_ns = Elapsed],
          raised |-> FALSE]

\* variant: the non-streamed text is added to what was streamed
collect_no_streaming_Appends(data) ==
    IF llm_invoke.kind = "raises" THEN [data |-> data, raised |-> TRUE]
    ELSE [data |-> [data EXCEPT !.generation = @ \o llm_invoke.text,
                                !.time_to_first_chunk_ns = Elapsed,
                                !.total_response_time_ns = Elapsed,
                                !.num_generation_chunks = -1],
          raised |-> FALSE]

\* collect_no_streaming(data)
collect_no_streaming(data) ==
    IF llm_invoke.kind = "raises" THEN [data |-> data, raised |-> TRUE]
    ELSE [data |-> [data EXCEPT !.generation = llm_invoke.text,
                                !.time_to_first_chunk_ns = Elapsed,
                                !.total_response_time_ns = Elapsed,
                                !.num_generation_chunks = -1],
          raised |-> FALSE]

\* an except clause of collect_streaming_data
Failed(data, error_message) ==
    [data EXCEPT !.errors_in_jupyterai = TRUE, !.error_message = error_message]

\* the try statement of collect_streaming_data: data as it leaves it, and
\* the calls of llm_chain made, in order
TryCollect(data) ==
    IF supports_streaming
    THEN LET s == collect_streaming(data) IN
         IF ~s.raised THEN [data |-> s.data, calls |-> <<"stream">>]
         ELSE LET n == collect_no_streaming(Failed(s.data, StreamError)) IN
              [data |-> IF n.raised THEN Failed(n.data, InvokeError) ELSE n.data,
               calls |-> <<"stream", "invoke">>]
    ELSE LET n == collect_no_streaming(data) IN
         [data |-> IF n.raised THEN Failed(n.data, InvokeError) ELSE n.data,
          calls |-> <<"invoke">>]

\* collect_streaming_data(prompt_data, model_id, model_provider); populate()
\* runs outside the try statement, and its divisions raise for a divisor 0
CollectStreamingData ==
    /\ collected = <<>>
    /\ LET tried == TryCollect(StreamingData(<<"p">>)) IN
        collected' = Some(
            IF tried.data.total_response_time_ns = 0
            THEN [raised |-> "ZeroDivisionError", calls |-> tried.calls]
            ELSE [raised |-> "none", data |-> populate(tried.data),
                  calls |-> tried.calls])
    /\ UNCHANGED <<model_provider, supports_streaming, llm_stream, llm_invoke>>

(***************************************************************************)
(* Initial states of the parts, and the values the parts that a            *)
(* specification does not exercise keep.                                   *)
(***************************************************************************)
ChatInit ==
    /\ hstate = [h \in Handlers |-> "new"]
    /\ client_id = [h \in Handlers |-> 0]
    /\ root_chat_handlers = <<>>
    /\ chat_clients = <<>>
    /\ chat_history = <<>>
    /\ pending_messages = <<>>
    /\ outbox = [h \in Handlers |-> <<>>]
    /\ tasks = <<>>
    /\ broadcasts = <<>>

RouteIdle ==
    /\ route_body = <<>>
    /\ route_result = <<>>

FilterIdle ==
    /\ providers_in = <<>>
    /\ blocked_models = None
    /\ allowed_models = None
    /\ filter_result = <<>>

ProviderIdle ==
    /\ jwt_file = "missing"
    /\ cdp_cli = "missing"
    /\ lm_endpoint = <<>>
    /\ em_endpoint = <<>>
    /\ posts = <<>>
    /\ returned = <<>>

DiscoveryIdle ==
    /\ copilot_config = [kind |-> "missing"]
    /\ discovered = [t \in ModelTypes \cup {"other"} |-> <<>>]

ExtractIdle ==
    /\ api_data = <<>>
    /\ extracted = <<>>

SlashIdle ==
    /\ lm_provider = None
    /\ jai_chat_handlers = <<>>
    /\ slash_response = <<>>

ListingIdle ==
    /\ lm_providers = <<>>
    /\ em_providers = <<>>
    /\ third_party_models = <<>>
    /\ listing_response = <<>>

InboxIdle ==
    /\ on_message_calls = <<>>

RatingIdle ==
    /\ rating_pc = "idle"
    /\ max_y = 0
    /\ prompt_lines = 0
    /\ resp_lines = 0
    /\ prompt_line_on = 0
    /\ resp_line_on = 0
    /\ max_prompt_line_on = 0
    /\ max_resp_line_on = 0
    /\ current_rating = 0
    /\ rating_result = <<>>

CollectIdle ==
    /\ model_provider = "bedrock"
    /\ supports_streaming = FALSE
    /\ llm_stream = [chunks |-> <<>>, raises |-> FALSE]
    /\ llm_invoke = [kind |-> "raises"]
    /\ collected = <<>>

TrackerIdle ==
    /\ engine_id = None
    /\ singleton_instances = <<>>
    /\ constructed = <<>>
    /\ copilot_events = <<>>

(***************************************************************************)
(* Spec: connections.  Clients connect, disconnect, send messages, and     *)
(* chat handlers broadcast, in any interleaving.                           *)
(***************************************************************************)
Payloads == {[other |-> 0], [prompt |-> <<"x">>]}

Init == ChatInit /\ RouteIdle /\ FilterIdle /\ ProviderIdle /\ DiscoveryIdle /\ ExtractIdle /\ SlashIdle /\ ListingIdle /\ TrackerIdle /\ InboxIdle /\ RatingIdle /\ CollectIdle

Next ==
    \/ \E h \in Handlers : Open(h) /\ UNCHANGED beside_chat
    \/ \E h \in Handlers : OnClose(h) /\ UNCHANGED beside_chat
    \/ \E h \in Handlers, p \in Payloads : OnMessage(h, p) /\ UNCHANGED beside_chat
    \/ Broadcast(AgentReply(Len(broadcasts) + 1)) /\ UNCHANGED beside_chat

Spec == Init /\ [][Next]_vars

(***************************************************************************)
(* SpecRouting: one connection sends prompts; the event loop runs the      *)
(* routing tasks while further messages arrive.                            *)
(***************************************************************************)
Prompts == {<<>>, <<" ">>, <<"/", "a", " ", "x">>, <<"x">>}

RoutingPayloads == {[other |-> 0]} \cup {[prompt |-> p] : p \in Prompts}

NextRouting ==
    \/ Open(1) /\ UNCHANGED beside_chat
    \/ \E p \in RoutingPayloads : OnMessage(1, p) /\ UNCHANGED beside_chat
    \/ \E t \in 1..MaxTasks : Route(t) /\ UNCHANGED beside_chat
    \/ \E t \in 1..MaxTasks : RouteReturn(t) /\ UNCHANGED beside_chat
    \/ Broadcast(AgentReply(Len(broadcasts) + 1)) /\ UNCHANGED beside_chat

SpecRouting == Init /\ [][NextRouting]_vars

(***************************************************************************)
(* SpecReply: clients connect and disconnect, one of them sends prompts,    *)
(* and the chat handlers that the routing tasks await broadcast replies.   *)
(***************************************************************************)
NextReply ==
    \/ \E h \in Handlers : Open(h) /\ UNCHANGED beside_chat
    \/ \E h \in Handlers : OnClose(h) /\ UNCHANGED beside_chat
    \/ \E p \in Payloads : OnMessage(1, p) /\ UNCHANGED beside_chat
    \/ \E t \in 1..MaxTasks : Route(t) /\ UNCHANGED beside_chat
    \/ \E t \in 1..MaxTasks : HandlerReplies(t) /\ UNCHANGED beside_chat
    \/ \E t \in 1..MaxTasks : RouteReturn(t) /\ UNCHANGED beside_chat

SpecReply == Init /\ [][NextReply]_vars

(***************************************************************************)
(* SpecClosing: as Spec, with connections that are closing while their     *)
(* handler is still registered.                                            *)
(***************************************************************************)
NextClosing ==
    \/ \E h \in Handlers : Open(h) /\ UNCHANGED beside_chat
    \/ \E h \in Handlers : ConnectionCloses(h) /\ UNCHANGED beside_chat
    \/ \E h \in Handlers : OnClose(h) /\ UNCHANGED beside_chat
    \/ \E h \in Handlers, p \in Payloads : OnMessage(h, p) /\ UNCHANGED beside_chat
    \/ Broadcast(AgentReply(Len(broadcasts) + 1)) /\ UNCHANGED beside_chat

SpecClosing == Init /\ [][NextClosing]_vars

(***************************************************************************)
(* SpecReceive: clients connect, disconnect and send payloads of every     *)
(* kind: text that is no JSON, JSON that is no object, an object without   *)
(* prompt, and a chat request.                                             *)
(***************************************************************************)
ReceivedPayloads ==
    {[text |-> "junk"], [array |-> <<>>], [other |-> 0], [prompt |-> <<"x">>]}

beside_chat_and_inbox == <<routevars, filtervars, providervars, discoveryvars, extractvars, slashvars, listingvars, trackervars, ratingvars, collectvars>>

NextReceive ==
    \/ \E h \in Handlers : Open(h) /\ UNCHANGED beside_chat
    \/ \E h \in Handlers : OnClose(h) /\ UNCHANGED beside_chat
    \/ \E h \in Handlers, p \in ReceivedPayloads :
            Receive(h, p) /\ UNCHANGED beside_chat_and_inbox

SpecReceive == Init /\ [][NextReceive]_vars

(***************************************************************************)
(* SpecHistory: the shared history and pending list under every sequence   *)
(* of broadcasts, with one client listening.                               *)
(***************************************************************************)
NextHistory ==
    \/ Open(1) /\ UNCHANGED beside_chat
    \/ OnMessage(1, [prompt |-> <<"x">>]) /\ UNCHANGED beside_chat
    \/ \E m \in AgentMsgs(Len(broadcasts) + 1) : Broadcast(m) /\ UNCHANGED beside_chat

SpecHistory == Init /\ [][NextHistory]_vars

(***************************************************************************)
(* SpecSnapshot: clients that connect and disconnect while messages,       *)
(* streams and chunks are broadcast.                                       *)
(***************************************************************************)
SnapshotMsgs(n) ==
    {Msg("agent-stream", 1, <<"x">>, FALSE, n),
     Msg("agent-stream-chunk", 1, <<"y">>, TRUE, n),
     Msg("pending", 1, <<>>, FALSE, n)}

NextSnapshot ==
    \/ \E h \in Handlers : Open(h) /\ UNCHANGED beside_chat
    \/ \E h \in Handlers : OnClose(h) /\ UNCHANGED beside_chat
    \/ \E m \in SnapshotMsgs(Len(broadcasts) + 1) : Broadcast(m) /\ UNCHANGED beside_chat

SpecSnapshot == Init /\ [][NextSnapshot]_vars

(***************************************************************************)
(* SpecRoute: _route as a function of the message body.                    *)
(***************************************************************************)
Alphabet == {"/", " ", "\n", "a", "x"}

Bodies ==
    UNION {[1..n -> Alphabet] : n \in 0..MaxBodyLen}
    \cup {<<"/">> \o DefaultKey, DefaultKey, <<" ">> \o DefaultKey}

RouteInit ==
    /\ route_body \in Bodies
    /\ route_result = <<>>

CallRoute ==
    /\ route_result = <<>>
    /\ route_result' = <<RouteOutcome(route_body)>>
    /\ UNCHANGED route_body

InitRoute == ChatInit /\ RouteInit /\ FilterIdle /\ ProviderIdle /\ DiscoveryIdle /\ ExtractIdle /\ SlashIdle /\ ListingIdle /\ TrackerIdle /\ InboxIdle /\ RatingIdle /\ CollectIdle

NextRoute == CallRoute /\ UNCHANGED beside_route

SpecRoute == InitRoute /\ [][NextRoute]_vars

(***************************************************************************)
(* SpecFilter: _filter_blocked_models as a function of the provider list   *)
(* and the two configured lists.                                           *)
(***************************************************************************)
ProviderIds == {"cloudera", "bedrock"}
ModelLists == {<<>>, <<"m">>, <<"m", "n">>, <<"n", "m">>}

\* entries as ModelProviderHandler.get and EmbeddingsModelProviderHandler.get
\* build them: chat_models and completion_models are taken from models
Entries ==
    {[id |-> i, models |-> ms,
      chat_models |-> SelectSeq(ms, LAMBDA m : m \in chat),
      completion_models |-> IF comp THEN ms ELSE <<>>] :
        i \in ProviderIds, ms \in ModelLists, chat \in {{"m"}, {"m", "n"}},
        comp \in BOOLEAN}

BlockLists ==
    {None, Some(<<>>), Some(<<"cloudera:m">>), Some(<<"cloudera:m", "bedrock:n">>),
     Some(<<"bedrock:n", "bedrock:m">>)}
AllowLists ==
    {None, Some(<<>>), Some(<<"cloudera:m">>), Some(<<"cloudera:n", "bedrock:m">>)}

FilterInit ==
    /\ providers_in \in UNION {[1..n -> Entries] : n \in 0..MaxProviders}
    /\ blocked_models \in BlockLists
    /\ allowed_models \in AllowLists
    /\ filter_result = <<>>

InitFilter == ChatInit /\ RouteIdle /\ FilterInit /\ ProviderIdle /\ DiscoveryIdle /\ ExtractIdle /\ SlashIdle /\ ListingIdle /\ TrackerIdle /\ InboxIdle /\ RatingIdle /\ CollectIdle

NextFilter == CallFilter /\ UNCHANGED beside_filter

SpecFilter == InitFilter /\ [][NextFilter]_vars

(***************************************************************************)
(* SpecProvider: calls of the providers, whatever the token sources,       *)
(* the configured endpoints and the service's answers are.                 *)
(***************************************************************************)
ProviderInit ==
    /\ jwt_file \in JwtFiles
    /\ cdp_cli \in CdpClis
    /\ lm_endpoint \in {e \in Endpoints : ~EndsWithEmbeddings(e)}
    /\ em_endpoint \in {<<>>, <<"v1", "embeddings">>}
    /\ posts = <<>>
    /\ returned = <<>>

InitProvider == ChatInit /\ RouteIdle /\ FilterIdle /\ ProviderInit /\ DiscoveryIdle /\ ExtractIdle /\ SlashIdle /\ ListingIdle /\ TrackerIdle /\ InboxIdle /\ RatingIdle /\ CollectIdle

\* the embedding calls made beside the language model calls
FewEmResponses ==
    {[kind |-> "raises"], [kind |-> "data", data |-> <<Entry("embedding", 0, <<1>>)>>]}

NextProvider ==
    \/ \E ms \in MessageLists, r \in LmResponses :
            LmCall(ms, r) /\ UNCHANGED beside_provider
    \/ \E ms \in MessageLists, s \in LmStreams :
            LmStream(ms, s) /\ UNCHANGED beside_provider
    \/ \E m \in Modes, r \in FewEmResponses :
            EmCall(<<"t">>, m, r) /\ UNCHANGED beside_provider

SpecProvider == InitProvider /\ [][NextProvider]_vars

(***************************************************************************)
(* SpecEmbedding: calls of the embedding provider, whatever the texts,     *)
(* the configured endpoint and the service's answer are.                   *)
(***************************************************************************)
EmbeddingInit ==
    /\ jwt_file = "token"
    /\ cdp_cli = "missing"
    /\ lm_endpoint = <<>>
    /\ em_endpoint \in {<<>>, <<"v1", "embeddings">>}
    /\ posts = <<>>
    /\ returned = <<>>

InitEmbedding == ChatInit /\ RouteIdle /\ FilterIdle /\ EmbeddingInit /\ DiscoveryIdle /\ ExtractIdle /\ SlashIdle /\ ListingIdle /\ TrackerIdle /\ InboxIdle /\ RatingIdle /\ CollectIdle

NextEmbedding ==
    \/ \E t \in Texts, m \in Modes, r \in EmResponses :
            EmCall(t, m, r) /\ UNCHANGED beside_provider
    \/ \E t \in Texts, r \in EmResponses :
            EmbedDocuments(t, r) /\ UNCHANGED beside_provider
    \/ \E t \in {"t", "u"}, r \in EmResponses :
            EmbedQuery(t, r) /\ UNCHANGED beside_provider

SpecEmbedding == InitEmbedding /\ [][NextEmbedding]_vars

(***************************************************************************)
(* SpecDiscovery: getCopilotModels for both model types, whatever the      *)
(* configuration file holds.                                               *)
(***************************************************************************)
ModelNames == {"a", "b"}
ModelEndpoints ==
    {<<"v1", "embeddings">>, <<"v1", "chat", "completions">>, <<"embeddings">>,
     <<"v1", "embeddings", "x">>}

ConfigModels == {[name |-> n, endpoint |-> e] : n \in ModelNames, e \in ModelEndpoints}

ConfigFiles ==
    {[kind |-> "missing"], [kind |-> "json", doc |-> [other |-> 0]]}
    \cup {[kind |-> "json", doc |-> [aiInferenceModels |-> ms]] :
            ms \in UNION {[1..n -> ConfigModels] : n \in 0..MaxModels}}

DiscoveryInit ==
    /\ copilot_config \in ConfigFiles
    /\ discovered = [t \in ModelTypes \cup {"other"} |-> <<>>]

InitDiscovery == ChatInit /\ RouteIdle /\ FilterIdle /\ ProviderIdle /\ DiscoveryInit /\ ExtractIdle /\ SlashIdle /\ ListingIdle /\ TrackerIdle /\ InboxIdle /\ RatingIdle /\ CollectIdle

NextDiscovery ==
    \/ \E t \in ModelTypes : Discover(t) /\ UNCHANGED beside_discovery
    \/ DiscoverUnknown /\ UNCHANGED beside_discovery

SpecDiscovery == InitDiscovery /\ [][NextDiscovery]_vars

(***************************************************************************)
(* SpecExtract: _extract_embedding_from_api_response as a function of the  *)
(* data list of the response.                                              *)
(***************************************************************************)
DataEntries ==
    {Entry("embedding", 0, <<1>>), Entry("embedding", 1, <<2>>),
     Entry("embedding", 2, <<3>>), Entry("embedding", 0, <<4>>),
     Entry("embedding", MaxEntries, <<5>>), Entry("embedding", -1, <<6>>),
     Entry("list", 1, <<7>>),
     [object |-> "embedding", embedding |-> <<8>>],
     [object |-> "embedding", index |-> 1],
     [index |-> 0, embedding |-> <<9>>]}

ExtractInit ==
    /\ api_data \in UNION {[1..n -> DataEntries] : n \in 0..MaxEntries}
    /\ extracted = <<>>

InitExtract == ChatInit /\ RouteIdle /\ FilterIdle /\ ProviderIdle /\ DiscoveryIdle /\ ExtractInit /\ SlashIdle /\ ListingIdle /\ TrackerIdle /\ InboxIdle /\ RatingIdle /\ CollectIdle

NextExtract == CallExtract /\ UNCHANGED beside_extract

SpecExtract == InitExtract /\ [][NextExtract]_vars

(***************************************************************************)
(* SpecSlash: SlashCommandsInfoHandler.get as a function of the selected   *)
(* provider and the registered chat handlers.                              *)
(***************************************************************************)
HandlerKeys == {"default", "/a", "/b", "/c"}

\* a registered chat handler; its help text tells the handlers apart
ChatHandlersFor(key) ==
    {[key |-> key,
      val |-> [routing_method |-> rm, slash_id |-> sid, help |-> "help of " \o key]] :
        rm \in {"slash_command", "other"}, sid \in {"a", "b"}}

\* dicts: keys are distinct
ChatHandlerDicts ==
    {d \in UNION {[1..n -> UNION {ChatHandlersFor(k) : k \in HandlerKeys}] :
                    n \in 0..MaxChatHandlers} :
        \A i, j \in DOMAIN d : d[i].key = d[j].key => i = j}

SelectedProviders ==
    {None} \cup {Some([unsupported_slash_commands |-> u]) : u \in {{}, {"/a"}, {"/b", "/x"}}}

SlashInit ==
    /\ lm_provider \in SelectedProviders
    /\ jai_chat_handlers \in ChatHandlerDicts
    /\ slash_response = <<>>

InitSlash == ChatInit /\ RouteIdle /\ FilterIdle /\ ProviderIdle /\ DiscoveryIdle /\ ExtractIdle /\ SlashInit /\ ListingIdle /\ TrackerIdle /\ InboxIdle /\ RatingIdle /\ CollectIdle

NextSlash == SlashCommandsGet /\ UNCHANGED beside_slash

SpecSlash == InitSlash /\ [][NextSlash]_vars

(***************************************************************************)
(* SpecListing: the two provider lists, whatever the registries, the       *)
(* configured third party models and the model allow and block lists are.  *)
(***************************************************************************)
RECURSIVE JoinParts(_)
JoinParts(parts) == IF parts = <<>> THEN "" ELSE Head(parts) \o JoinParts(Tail(parts))

RegisteredIds == {<<"bedrock">>, <<"amazon-", "bedrock", "-chat">>, <<"cloudera">>, <<"openai">>}

RegisteredProviders ==
    {[id |-> JoinParts(parts), id_parts |-> parts, name |-> n, models |-> ms,
      chat_models |-> ms, completion_models |-> SelectSeq(ms, LAMBDA m : m = "m")] :
        parts \in RegisteredIds, n \in {"a", "b"}, ms \in {<<"n">>, <<"m", "n">>}}

\* dicts keyed by provider id
Registries ==
    {d \in UNION {[1..n -> {[key |-> p.id, val |-> p] : p \in RegisteredProviders}] :
                    n \in 0..MaxProviders} :
        \A i, j \in DOMAIN d : d[i].key = d[j].key => i = j}

ThirdPartyConfigs == {<<>>, <<[name |-> "m"]>>, <<[name |-> "n"], [name |-> "x"]>>}

ListingInit ==
    /\ \/ lm_providers \in Registries /\ em_providers = <<>>
       \/ lm_providers = <<>> /\ em_providers \in Registries
    /\ third_party_models \in ThirdPartyConfigs
    /\ listing_response = <<>>

\* the model lists that the listing is filtered by
ListingFilterInit ==
    /\ providers_in = <<>>
    /\ blocked_models \in {None, Some(<<>>), Some(<<"bedrock:n", "cloudera:m">>)}
    /\ allowed_models \in {None, Some(<<"cloudera:n", "bedrock:m">>)}
    /\ filter_result = <<>>

InitListing == ChatInit /\ RouteIdle /\ ListingFilterInit /\ ProviderIdle /\ DiscoveryIdle /\ ExtractIdle /\ SlashIdle /\ ListingInit /\ TrackerIdle /\ InboxIdle /\ RatingIdle /\ CollectIdle

NextListing ==
    \/ ModelProviderGet /\ UNCHANGED beside_listing
    \/ EmbeddingsModelProviderGet /\ UNCHANGED beside_listing

SpecListing == InitListing /\ [][NextListing]_vars

(***************************************************************************)
(* SpecTracker: constructions of UsageTracker and the events sent through  *)
(* the objects constructed.                                                *)
(***************************************************************************)
EventRequests == {[event_type |-> "chat"], [event_type |-> "generate"]}

TrackerInit ==
    /\ engine_id \in {None, Some("engine")}
    /\ singleton_instances = <<>>
    /\ constructed = <<>>
    /\ copilot_events = <<>>

InitTracker == ChatInit /\ RouteIdle /\ FilterIdle /\ ProviderIdle /\ DiscoveryIdle /\ ExtractIdle /\ SlashIdle /\ ListingIdle /\ TrackerInit /\ InboxIdle /\ RatingIdle /\ CollectIdle

NextTracker ==
    \/ ConstructUsageTracker /\ UNCHANGED beside_tracker
    \/ \E i \in DOMAIN constructed, req \in EventRequests :
            SendCopilotEvent(constructed[i], req) /\ UNCHANGED beside_tracker

SpecTracker == InitTracker /\ [][NextTracker]_vars

(***************************************************************************)
(* SpecRating: GetRating.run_loop for short and long texts, in a terminal  *)
(* that is resized while the UI is up.                                     *)
(***************************************************************************)
TerminalRows == {MaxRows - 10, MaxRows}
TextLines == {1, 2, MaxTextLines}

RatingInit ==
    /\ rating_pc = "draw"
    /\ max_y \in TerminalRows
    /\ prompt_lines \in TextLines
    /\ resp_lines \in TextLines
    /\ prompt_line_on = 0
    /\ resp_line_on = 0
    /\ max_prompt_line_on = 0
    /\ max_resp_line_on = 0
    /\ current_rating = 0
    /\ rating_result = <<>>

InitRating == ChatInit /\ RouteIdle /\ FilterIdle /\ ProviderIdle /\ DiscoveryIdle /\ ExtractIdle /\ SlashIdle /\ ListingIdle /\ TrackerIdle /\ InboxIdle /\ RatingInit /\ CollectIdle

NextRating ==
    \/ Draw /\ UNCHANGED beside_rating
    \/ \E key \in Keys, rows \in TerminalRows : GetKey(key, rows) /\ UNCHANGED beside_rating

SpecRating == InitRating /\ [][NextRating]_vars

(***************************************************************************)
(* SpecCollect: collect_streaming_data for every behaviour of the model:   *)
(* streams that end or raise after some chunks, invocations that return or *)
(* raise.                                                                  *)
(***************************************************************************)
ModelProviders == {"bedrock", "bedrock-chat"}
ChunkTexts == {<<"a">>, <<"b", "\n">>}

RECURSIVE ChunkLists(_)
ChunkLists(n) ==
    IF n = 0 THEN {<<>>}
    ELSE ChunkLists(n - 1)
         \cup {Append(l, t) : l \in {k \in ChunkLists(n - 1) : Len(k) = n - 1},
                              t \in ChunkTexts}

InvokeOutcomes ==
    {[kind |-> "raises"], [kind |-> "returns", text |-> <<>>],
     [kind |-> "returns", text |-> <<"r", "\n", "t">>]}

CollectInit ==
    /\ model_provider \in ModelProviders
    /\ supports_streaming \in BOOLEAN
    /\ llm_stream \in {[chunks |-> [i \in DOMAIN l |-> ChunkOfText(model_provider, l[i])],
                         raises |-> r] : l \in ChunkLists(MaxChunks), r \in BOOLEAN}
    /\ llm_invoke \in InvokeOutcomes
    /\ collected = <<>>

InitCollect == ChatInit /\ RouteIdle /\ FilterIdle /\ ProviderIdle /\ DiscoveryIdle /\ ExtractIdle /\ SlashIdle /\ ListingIdle /\ TrackerIdle /\ InboxIdle /\ RatingIdle /\ CollectInit

NextCollect == CollectStreamingData /\ UNCHANGED beside_collect

SpecCollect == InitCollect /\ [][NextCollect]_vars

(***************************************************************************)
(* Properties of the chat backend.                                         *)
(***************************************************************************)
Last(seq) == seq[Len(seq)]

Received(h, m) == \E i \in DOMAIN outbox[h] : outbox[h][i] = m

\* C1: broadcast_message(m) writes m exactly once to every client that is
\* connected at that moment (open() has run, on_close() has not), the sender
\* included, and to no other client; apart from the connection message of
\* open(), nothing else is ever written.
C1_BroadcastStep ==
    /\ Len(broadcasts') = Len(broadcasts) + 1 =>
          \A h \in Handlers :
              outbox'[h] = IF hstate[h] = "open"
                           THEN Append(outbox[h], Last(broadcasts'))
                           ELSE outbox[h]
    /\ Len(broadcasts') = Len(broadcasts) =>
          \A h \in Handlers :
              \/ outbox'[h] = outbox[h]
              \/ hstate[h] = "new" /\ hstate'[h] = "open" /\ Len(outbox'[h]) = 1

C3_EveryRequestDispatched ==
    \A t \in DOMAIN tasks :
        tasks[t].pc # "scheduled" => Len(tasks[t].invoked) = 1

\* C4: on_message returns after broadcasting the human message and
\* scheduling _route: the step that creates the task leaves it not started,
\* appends the human message to the history and waits for no other task.
C4_OnMessageStep ==
    Len(tasks') = Len(tasks) + 1 =>
        /\ Last(tasks').pc = "scheduled"
        /\ Last(tasks').invoked = <<>>
        /\ chat_history' = Append(chat_history, Last(tasks').message)
        /\ \A t \in DOMAIN tasks : tasks'[t] = tasks[t]

C4_OnMessageDoesNotWait == [][C4_OnMessageStep]_vars

\* the handler of the first message is still running while the second
\* message of the same connection is in the history
C4_Witness ==
    /\ Len(tasks) = 2
    /\ tasks[1].pc = "awaiting"
    /\ tasks[2].owner = tasks[1].owner
    /\ \E i \in DOMAIN chat_history : chat_history[i].obj = tasks[2].message.obj

\* c is the first whitespace-delimited token of body
IsFirstTokenOf(c, body) ==
    /\ c # <<>>
    /\ \A i \in DOMAIN c : c[i] \notin {" ", "\n"}
    /\ \E k \in 0..Len(body) :
        /\ k + Len(c) <= Len(body)
        /\ \A i \in 1..k : body[i] \in {" ", "\n"}
        /\ SubSeq(body, k + 1, k + Len(c)) = c
        /\ k + Len(c) < Len(body) => body[k + Len(c) + 1] \in {" ", "\n"}

\* C5: _route dispatches to chat_handlers[c], c the first token of the body,
\* iff the body starts with "/" and c is a registered key other than
\* "default"; in every other case to the default handler; never to two.
C5_DispatchRule ==
    route_result # <<>> =>
        LET commands == {c \in ChatHandlerKeys \ {DefaultKey} :
                            /\ route_body # <<>>
                            /\ route_body[1] = "/"
                            /\ IsFirstTokenOf(c, route_body)}
        IN IF commands # {}
           THEN \E c \in commands : route_result[1].invoked = <<c>>
           ELSE route_result[1].invoked = <<DefaultKey>>

\* the concatenation of the bodies of a sequence of messages
RECURSIVE Joined(_)
Joined(ms) == IF ms = <<>> THEN <<>> ELSE Head(ms).body \o Joined(Tail(ms))

\* C6, first part: broadcasting a chunk with id X appends its content to the
\* body of the most recent agent-stream message with id X in the history and
\* sets that message's complete flag to the chunk's stream_complete.
C6_ChunkStep ==
    (Len(broadcasts') = Len(broadcasts) + 1
        /\ Last(broadcasts').type = "agent-stream-chunk") =>
        LET chunk == Last(broadcasts')
            same == {i \in DOMAIN chat_history :
                        /\ chat_history[i].type = "agent-stream"
                        /\ chat_history[i].id = chunk.id}
        IN /\ Len(chat_history') = Len(chat_history)
           /\ \A i \in DOMAIN chat_history :
                IF i \in same /\ \A j \in same : j <= i
                THEN /\ chat_history'[i].body = chat_history[i].body \o chunk.body
                     /\ chat_history'[i].complete = chunk.complete
                ELSE chat_history'[i] = chat_history[i]

OwnChunks(s) ==
    SelectSeq(broadcasts, LAMBDA m :
        /\ m.type = "agent-stream-chunk"
        /\ m.id = s.id
        /\ m.obj > s.obj
        /\ ~\E j \in (s.obj + 1)..(m.obj - 1) :
                broadcasts[j].type = "agent-stream" /\ broadcasts[j].id = s.id)

C6_BodyIsOwnChunks ==
    \A i \in DOMAIN chat_history :
        chat_history[i].type = "agent-stream" =>
            /\ chat_history[i].body =
                   broadcasts[chat_history[i].obj].body \o Joined(OwnChunks(chat_history[i]))
            /\ chat_history[i].complete =
                   IF OwnChunks(chat_history[i]) = <<>>
                   THEN broadcasts[chat_history[i].obj].complete
                   ELSE Last(OwnChunks(chat_history[i])).complete

C8_RegistriesMatchConnections ==
    LET open_ids == {client_id[h] : h \in {g \in Handlers : hstate[g] = "open"}} IN
    /\ DictKeys(root_chat_handlers) = open_ids
    /\ DictKeys(chat_clients) = open_ids
    /\ Len(root_chat_handlers) = Cardinality(open_ids)
    /\ Len(chat_clients) = Cardinality(open_ids)
    /\ \A h \in Handlers :
        /\ hstate[h] = "open" =>
            /\ \E i \in DOMAIN root_chat_handlers :
                root_chat_handlers[i] = [key |-> client_id[h], val |-> h]
            /\ \E i \in DOMAIN chat_clients :
                chat_clients[i] = [key |-> client_id[h], val |-> [id |-> client_id[h]]]
        /\ hstate[h] = "closed" =>
            /\ client_id[h] \notin DictKeys(root_chat_handlers)
            /\ client_id[h] \notin DictKeys(chat_clients)
            /\ DictPop(root_chat_handlers, client_id[h]) = root_chat_handlers
            /\ DictPop(chat_clients, client_id[h]) = chat_clients

\* one connection closed while a later one stays registered
C8_Witness ==
    \E a, b \in Handlers :
        /\ hstate[a] = "closed" /\ hstate[b] = "open"
        /\ client_id[a] < client_id[b]
        /\ Len(root_chat_handlers) = 1

(***************************************************************************)
(* Properties of the providers and of the provider listing.                *)
(***************************************************************************)
\* the tokens the two sources can give
Tokens == {"jwt-token", "cdp-token"}

CarriesToken(post) ==
    \E name \in DOMAIN post.headers, t \in Tokens :
        post.headers[name] \in {Some(t), Some("Bearer " \o t)}

\* C9: every request sent to a model endpoint carries a bearer token from the
\* JWT file or the CDP CLI; none is sent without a token.
C9_EveryRequestCarriesToken ==
    \A i \in DOMAIN posts : CarriesToken(posts[i])

\* C10: with a non-empty blocked_models, no returned provider lists a blocked
\* model in models, chat_models or completion_models, and every model that is
\* not blocked is kept, in its list and order.
C10_BlocklistHolds ==
    (filter_result # <<>> /\ blocked_models # None /\ blocked_models[1] # <<>>) =>
        LET out == filter_result[1].providers
            blocked(p, m) == \E i \in DOMAIN blocked_models[1] :
                                blocked_models[1][i] = p.id \o ":" \o m
            kept(p, list) == SelectSeq(list, LAMBDA m : ~blocked(p, m))
            \* positions of the argument whose provider keeps a model
            live == {i \in DOMAIN providers_in :
                        kept(providers_in[i], providers_in[i].models
                                \o providers_in[i].chat_models
                                \o providers_in[i].completion_models) # <<>>}
            \* the position in the argument of the j-th returned provider
            pos(j) == CHOOSE i \in live : Cardinality({k \in live : k <= i}) = j
        IN /\ filter_result[1].raised = "none"
           /\ Len(out) = Cardinality(live)
           /\ \A j \in DOMAIN out :
                /\ out[j].id = providers_in[pos(j)].id
                /\ out[j].models = kept(out[j], providers_in[pos(j)].models)
                /\ out[j].chat_models = kept(out[j], providers_in[pos(j)].chat_models)
                /\ out[j].completion_models =
                        kept(out[j], providers_in[pos(j)].completion_models)

\* a provider lost a blocked model, kept another, and a provider with only
\* blocked models was dropped
C10_Witness ==
    /\ filter_result # <<>>
    /\ blocked_models = Some(<<"bedrock:n", "bedrock:m">>)
    /\ allowed_models = Some(<<"cloudera:m">>)
    /\ Len(providers_in) = 2
    /\ providers_in[1].id = "bedrock" /\ providers_in[1].models = <<"n", "m">>
    /\ providers_in[2].id = "cloudera" /\ providers_in[2].models = <<"m", "n">>
    /\ Len(filter_result[1].providers) = 1
    /\ filter_result[1].providers[1].models = <<"m", "n">>

\* C11: whenever allowed_models is configured, every model of every returned
\* provider has its id "<provider.id>:<model>" in allowed_models, whatever
\* blocked_models is.
C11_AllowlistHolds ==
    (filter_result # <<>> /\ allowed_models # None) =>
        /\ filter_result[1].raised = "none"
        /\ \A j \in DOMAIN filter_result[1].providers :
              LET p == filter_result[1].providers[j] IN
              \A k \in DOMAIN (p.models \o p.chat_models \o p.completion_models) :
                  InList(ModelId(p.id, (p.models \o p.chat_models \o p.completion_models)[k]),
                         allowed_models[1])

\* the two dialects, told apart by the body of the request
IsChatRequest(post) ==
    /\ "messages" \in DOMAIN post.request
    /\ "prompt" \notin DOMAIN post.request
    /\ \A i \in DOMAIN post.request.messages :
          post.request.messages[i].role \in {"system", "user", "assistant"}

IsCompletionRequest(post) ==
    /\ "prompt" \in DOMAIN post.request
    /\ "messages" \notin DOMAIN post.request

\* C12: a _call on a resolved endpoint, with a token at hand, sends exactly one
\* request: a chat-completions request iff the endpoint contains
\* "chat/completions", a completions request iff it contains "completions" but
\* not "chat/completions".
C12_CallStep ==
    (/\ returned' # <<>> /\ returned'[1].fn = "_call"
     /\ lm_endpoint # <<>> /\ ~Falsy(GetCDPToken)) =>
        /\ Len(posts') = Len(posts) + 1
        /\ SubSeq(posts', 1, Len(posts)) = posts
        /\ Last(posts').endpoint = lm_endpoint
        /\ IsChatRequest(Last(posts')) <=>
                Finds(lm_endpoint, <<"chat", "completions">>)
        /\ IsCompletionRequest(Last(posts')) <=>
                (/\ Finds(lm_endpoint, <<"completions">>)
                 /\ ~Finds(lm_endpoint, <<"chat", "completions">>))
        /\ IsChatRequest(Last(posts')) # IsCompletionRequest(Last(posts'))

C12_OneRequestInOneDialect == [][C12_CallStep]_vars

\* a received line, read apart from the loop of _stream
IsBlankLine(line) == line = <<>> \/ (Len(line) = 1 /\ line[1].kind = "data: ")
PayloadOf(line) == line[Len(line)]
IsDoneLine(line) == ~IsBlankLine(line) /\ PayloadOf(line).kind = "[DONE]"

\* lines the loop cannot digest: not JSON, or JSON with an empty choices list
IsBrokenLine(line) ==
    /\ ~IsBlankLine(line)
    /\ \/ PayloadOf(line).kind = "junk"
       \/ /\ PayloadOf(line).kind = "json"
          /\ "choices" \in DOMAIN PayloadOf(line).obj
          /\ PayloadOf(line).obj.choices = <<>>

\* a data line that carries content, in the dialect of the request
CarriesContent(line, endpoint) ==
    /\ ~IsBlankLine(line) /\ ~IsBrokenLine(line)
    /\ PayloadOf(line).kind = "json"
    /\ "choices" \in DOMAIN PayloadOf(line).obj
    /\ IF Finds(endpoint, <<"chat", "completions">>)
       THEN /\ "delta" \in DOMAIN PayloadOf(line).obj.choices[1]
            /\ "content" \in DOMAIN PayloadOf(line).obj.choices[1].delta
       ELSE "text" \in DOMAIN PayloadOf(line).obj.choices[1]

ContentOf(line, endpoint) ==
    IF Finds(endpoint, <<"chat", "completions">>)
    THEN PayloadOf(line).obj.choices[1].delta.content
    ELSE PayloadOf(line).obj.choices[1].text

\* C13: _stream yields one chunk per received data line that carries content,
\* in arrival order, skips empty lines and stops at the first [DONE] line:
\* nothing that comes after [DONE] is yielded, and the stream then ends (a line
\* the loop cannot digest ends the reading too, with an exception).
C13_StreamStopsAtDone ==
    (returned # <<>> /\ returned[1].fn = "_stream") =>
        LET r == returned[1]
            \* the position where reading ends
            ends == {i \in DOMAIN r.lines :
                        IsDoneLine(r.lines[i]) \/ IsBrokenLine(r.lines[i])}
            stop == IF ends = {} THEN Len(r.lines) + 1
                    ELSE CHOOSE i \in ends : \A j \in ends : i <= j
            carriers == {i \in 1..(stop - 1) : CarriesContent(r.lines[i], lm_endpoint)}
            nth(k) == CHOOSE i \in carriers : Cardinality({j \in carriers : j <= i}) = k
        IN /\ Len(r.yielded) = Cardinality(carriers)
           /\ \A k \in DOMAIN r.yielded :
                r.yielded[k] = ContentOf(r.lines[nth(k)], lm_endpoint)
           /\ (r.raised = "none") <=>
                (stop = Len(r.lines) + 1 \/ IsDoneLine(r.lines[stop]))

\* content before [DONE], after an empty line, was yielded; content after
\* [DONE] was not
C13_Witness ==
    /\ returned # <<>> /\ returned[1].fn = "_stream"
    /\ returned[1].lines =
          <<Data(ChatDelta("x")), <<Prefix>>, <<Done>>, Data(ChatDelta("y"))>>
    /\ returned[1].yielded = <<"x">>
    /\ returned[1].raised = "none"

\* how often x occurs in seq
Count(x, seq) == Cardinality({i \in DOMAIN seq : seq[i] = x})

\* seq is a subsequence of list: seq keeps the order of list
RECURSIVE IsSubSeq(_, _)
IsSubSeq(seq, list) ==
    IF seq = <<>> THEN TRUE
    ELSE IF list = <<>> THEN FALSE
    ELSE IF Head(seq) = Head(list) THEN IsSubSeq(Tail(seq), Tail(list))
    ELSE IsSubSeq(seq, Tail(list))

\* C14: the inference and the embedding result partition the configured
\* models: a model is in the embedding result iff its endpoint ends with
\* "/embeddings", else in the inference result, never in both or neither;
\* both keep the configuration order, and the name list of each result is the
\* names of its models in the same order.
C14_ResultsPartitionModels ==
    (discovered["inference"] # <<>> /\ discovered["embedding"] # <<>>) =>
        LET inf == discovered["inference"][1]
            emb == discovered["embedding"][1]
            cfg == IF copilot_config.kind = "json"
                      /\ "aiInferenceModels" \in DOMAIN copilot_config.doc
                   THEN copilot_config.doc.aiInferenceModels ELSE <<>>
            ends(m) == /\ Len(m.endpoint) > 1
                       /\ SubSeq(m.endpoint, Len(m.endpoint), Len(m.endpoint))
                            = <<"embeddings">>
        IN /\ inf.raised = "none" /\ emb.raised = "none"
           /\ \A i \in DOMAIN cfg :
                /\ Count(cfg[i], emb.ai_inference_models) =
                        (IF ends(cfg[i]) THEN Count(cfg[i], cfg) ELSE 0)
                /\ Count(cfg[i], inf.ai_inference_models) =
                        (IF ends(cfg[i]) THEN 0 ELSE Count(cfg[i], cfg))
           /\ Len(inf.ai_inference_models) + Len(emb.ai_inference_models) = Len(cfg)
           /\ IsSubSeq(inf.ai_inference_models, cfg)
           /\ IsSubSeq(emb.ai_inference_models, cfg)
           /\ \A r \in {inf, emb} :
                /\ Len(r.models) = Len(r.ai_inference_models)
                /\ \A i \in DOMAIN r.models : r.models[i] = r.ai_inference_models[i].name

\* two configured models, one of each kind, each found in its own result
C14_Witness ==
    /\ discovered["inference"] # <<>> /\ discovered["embedding"] # <<>>
    /\ copilot_config.kind = "json"
    /\ "aiInferenceModels" \in DOMAIN copilot_config.doc
    /\ copilot_config.doc.aiInferenceModels =
          <<[name |-> "a", endpoint |-> <<"v1", "embeddings">>],
            [name |-> "b", endpoint |-> <<"v1", "embeddings", "x">>]>>
    /\ discovered["embedding"][1].models = <<"a">>
    /\ discovered["inference"][1].models = <<"b">>

\* the entries' indices are a permutation of 0..n-1
IndicesArePermutation(data) ==
    /\ \A i \in DOMAIN data : "index" \in DOMAIN data[i]
    /\ {data[i].index : i \in DOMAIN data} = 0..(Len(data) - 1)

AllAreEmbeddings(data) ==
    \A i \in DOMAIN data : "object" \in DOMAIN data[i] /\ data[i].object = "embedding"

\* position i of the result holds the embedding of the entry whose index is i
HoldsByIndex(result, data) ==
    /\ Len(result) = Len(data)
    /\ \A i \in DOMAIN data : result[data[i].index + 1] = data[i].embedding

\* C15 as stated: the call returns iff every entry has object "embedding" and
\* the indices are a permutation of 0..n-1, and then position i holds the
\* embedding of the entry with index i; otherwise it raises RuntimeError.
C15_ReturnsIffPermutation ==
    extracted # <<>> =>
        /\ (extracted[1].raised = "none") <=>
                (AllAreEmbeddings(api_data) /\ IndicesArePermutation(api_data))
        /\ extracted[1].raised = "none" =>
                HoldsByIndex(extracted[1].embeddings, api_data)
        /\ extracted[1].raised \in {"none", "RuntimeError"}

\* C15, amended: the call returns iff every entry has object "embedding", an
\* index and an embedding, and the indices are a permutation of 0..n-1; then
\* position i holds the embedding of the entry with index i, whatever the
\* arrival order; otherwise it raises RuntimeError.
C15_ReturnsIffWellFormedPermutation ==
    extracted # <<>> =>
        /\ (extracted[1].raised = "none") <=>
                (/\ AllAreEmbeddings(api_data)
                 /\ IndicesArePermutation(api_data)
                 /\ \A i \in DOMAIN api_data :
                        "embedding" \in DOMAIN api_data[i])
        /\ extracted[1].raised = "none" =>
                HoldsByIndex(extracted[1].embeddings, api_data)
        /\ extracted[1].raised \in {"none", "RuntimeError"}

\* three entries arriving out of order were put in index order
C15_Witness ==
    /\ extracted # <<>>
    /\ api_data = <<Entry("embedding", 2, <<3>>), Entry("embedding", 0, <<1>>),
                         Entry("embedding", 1, <<2>>)>>
    /\ extracted[1].raised = "none"
    /\ extracted[1].embeddings = <<<<1>>, <<2>>, <<3>>>>

\* the embedding the service computed for the text at position i (index i - 1)
EmbeddingFor(response, i) ==
    LET k == CHOOSE k \in DOMAIN response.data : response.data[k].index = i - 1
    IN response.data[k].embedding

\* C16: an embedding call that returns gives exactly one embedding per input
\* text, never a list of another length; embed_documents sends the texts in
\* "passage" mode, embed_query sends [text] in "query" mode and returns the
\* single embedding computed for it.
C16_CallStep ==
    (/\ returned' # <<>>
     /\ returned'[1].fn \in {"em_call", "embed_documents", "embed_query"}
     /\ returned'[1].raised = "none") =>
        LET r == returned'[1] IN
        /\ Len(posts') = Len(posts) + 1
        /\ Last(posts').request.input = r.texts
        /\ r.fn \in {"em_call", "embed_documents"} =>
              /\ Len(r.value) = Len(r.texts)
              /\ \A i \in DOMAIN r.value : r.value[i] = EmbeddingFor(r.response, i)
        /\ r.fn = "embed_documents" => Last(posts').request.model = "model_id-passage"
        /\ r.fn = "embed_query" =>
              /\ Len(r.texts) = 1
              /\ Last(posts').request.model = "model_id-query"
              /\ r.value = EmbeddingFor(r.response, 1)

C16_OneEmbeddingPerText == [][C16_CallStep]_vars

\* after a query call, embed_documents returned one embedding for each of its
\* two texts
C16_Witness ==
    /\ returned # <<>>
    /\ returned[1].fn = "embed_documents"
    /\ returned[1].texts = <<"t", "u">>
    /\ returned[1].value = <<<<1>>, <<2>>>>
    /\ Len(posts) = 2
    /\ posts[1].request.input = <<"t", "u">>
    /\ posts[1].request.model = "model_id-query"

\* C17: the response is empty when no language model is selected; otherwise
\* it lists exactly the chat handlers whose key is not "default", whose
\* routing method is "slash_command" and whose "/" + slash_id the selected
\* provider does not declare unsupported, each once, ascending by slash_id.
C17_SlashCommandsListed ==
    slash_response # <<>> =>
        LET listed == slash_response[1]
            available ==
                {i \in DOMAIN jai_chat_handlers :
                    /\ jai_chat_handlers[i].key # "default"
                    /\ jai_chat_handlers[i].val.routing_method = "slash_command"
                    /\ \A u \in lm_provider[1].unsupported_slash_commands :
                          u # "/" \o jai_chat_handlers[i].val.slash_id}
        IN IF lm_provider = None THEN listed = <<>>
           ELSE /\ Len(listed) = Cardinality(available)
                /\ \A i \in available :
                      \E j \in DOMAIN listed :
                          /\ listed[j].slash_id = jai_chat_handlers[i].val.slash_id
                          /\ listed[j].description = jai_chat_handlers[i].val.help
                /\ \A j, k \in DOMAIN listed :
                      j < k => Ord(listed[j].slash_id) <= Ord(listed[k].slash_id)

\* handlers with slash ids a, b, a registered, /b unsupported: the response
\* lists the two a handlers
C17_Witness ==
    /\ slash_response # <<>>
    /\ lm_provider = Some([unsupported_slash_commands |-> {"/b", "/x"}])
    /\ Len(jai_chat_handlers) = 3
    /\ jai_chat_handlers[1].key = "/b"
    /\ jai_chat_handlers[2].key = "/a"
    /\ jai_chat_handlers[3].key = "/c"
    /\ \A i \in 1..3 : jai_chat_handlers[i].val.routing_method = "slash_command"
    /\ jai_chat_handlers[1].val.slash_id = "a"
    /\ jai_chat_handlers[2].val.slash_id = "b"
    /\ jai_chat_handlers[3].val.slash_id = "a"
    /\ slash_response[1] = <<[slash_id |-> "a", description |-> "help of /b"],
                             [slash_id |-> "a", description |-> "help of /c"]>>

\* the registry a response was computed from, and the provider an entry
\* was made for
RegistryOf(response) == IF response.by = "lm" THEN lm_providers ELSE em_providers
ProviderOf(response, entry) ==
    LET d == RegistryOf(response)
    IN d[CHOOSE i \in DOMAIN d : d[i].key = entry.id].val

IsBedrockId(provider) ==
    \E k \in DOMAIN provider.id_parts : provider.id_parts[k] = "bedrock"

\* the models of a provider that the configuration enables
Configured(provider) ==
    IF IsBedrockId(provider)
    THEN SelectSeq(provider.models,
                   LAMBDA m : \E i \in DOMAIN third_party_models :
                                  third_party_models[i].name = m)
    ELSE provider.models

SubsetOfModels(list, models) ==
    \A i \in DOMAIN list : \E j \in DOMAIN models : models[j] = list[i]

\* what C18 says of every entry but its models
ListedEntriesAreSound(response) ==
    /\ \A j \in DOMAIN response.providers :
          LET entry == response.providers[j] IN
          /\ \E i \in DOMAIN RegistryOf(response) : RegistryOf(response)[i].key = entry.id
          /\ IsBedrockId(ProviderOf(response, entry)) \/ entry.id = "cloudera"
          /\ SubsetOfModels(entry.chat_models, entry.models)
          /\ SubsetOfModels(entry.completion_models, entry.models)
    /\ \A j, k \in DOMAIN response.providers :
          j < k => Ord(response.providers[j].name) <= Ord(response.providers[k].name)

\* C18 as stated: only bedrock and cloudera providers are listed; a bedrock
\* entry lists exactly its models named in thirdPartyModels, the cloudera
\* entry all its models; chat_models and completion_models are subsets of
\* models; the entries are sorted by name.
C18_ListsConfiguredModels ==
    (listing_response # <<>> /\ listing_response[1].raised = "none") =>
        /\ ListedEntriesAreSound(listing_response[1])
        /\ \A j \in DOMAIN listing_response[1].providers :
              listing_response[1].providers[j].models =
                  Configured(ProviderOf(listing_response[1],
                                        listing_response[1].providers[j]))

\* a model passes the model allow and block lists as the listing applies them
PassesLists(id, m) ==
    IF blocked_models # None /\ blocked_models[1] # <<>>
    THEN \A i \in DOMAIN blocked_models[1] : blocked_models[1][i] # id \o ":" \o m
    ELSE IF allowed_models # None
    THEN \E i \in DOMAIN allowed_models[1] : allowed_models[1][i] = id \o ":" \o m
    ELSE TRUE

\* C18, amended: as stated, but the models listed are the configured ones
\* that pass the model allow and block lists, and when one of the two lists
\* is set a provider left without a model is not listed.
C18_ListsConfiguredModelsThatPass ==
    (listing_response # <<>> /\ listing_response[1].raised = "none") =>
        LET r == listing_response[1]
            passing(p) == SelectSeq(Configured(p), LAMBDA m : PassesLists(p.id, m))
            listable == {i \in DOMAIN RegistryOf(r) :
                            LET p == RegistryOf(r)[i].val IN
                            /\ IsBedrockId(p) \/ p.id = "cloudera"
                            /\ \/ blocked_models = None /\ allowed_models = None
                               \/ passing(p) # <<>>}
        IN /\ ListedEntriesAreSound(r)
           /\ \A j \in DOMAIN r.providers :
                 r.providers[j].models = passing(ProviderOf(r, r.providers[j]))
           /\ {r.providers[j].id : j \in DOMAIN r.providers} =
                 {RegistryOf(r)[i].key : i \in listable}
           /\ Len(r.providers) = Cardinality(listable)

\* a bedrock provider registered before cloudera and named after it is listed
\* second, with its one configured model that is not blocked
C18_Witness ==
    /\ listing_response # <<>>
    /\ listing_response[1].by = "lm"
    /\ listing_response[1].raised = "none"
    /\ blocked_models = Some(<<"bedrock:n", "cloudera:m">>)
    /\ third_party_models = <<[name |-> "n"], [name |-> "x"]>>
    /\ Len(lm_providers) = 2
    /\ lm_providers[1].key = "amazon-bedrock-chat"
    /\ lm_providers[1].val.models = <<"m", "n">>
    /\ lm_providers[1].val.name = "b"
    /\ lm_providers[2].key = "cloudera"
    /\ lm_providers[2].val.name = "a"
    /\ lm_providers[2].val.models = <<"m", "n">>
    /\ Len(listing_response[1].providers) = 2
    /\ listing_response[1].providers[1].id = "cloudera"
    /\ listing_response[1].providers[1].models = <<"n">>
    /\ listing_response[1].providers[2].models = <<"n">>

\* C19: every construction UsageTracker() returns the same instance, so at
\* most one UsageTracker instance ever exists.
C19_OneUsageTracker ==
    \A i, j \in DOMAIN constructed : constructed[i] = constructed[j]

\* the chat messages a client received after its connection message
LaterChatMessages(h) ==
    SelectSeq(Tail(outbox[h]), LAMBDA m : m.type \in {"human", "agent", "agent-stream"})

\* C20, first part: the connection message carries the whole chat history and
\* pending list of the moment the client connects.
C20_OpenStep ==
    \A h \in Handlers :
        (hstate[h] = "new" /\ hstate'[h] = "open") =>
            /\ outbox'[h] = <<[type |-> "connection", client_id |-> client_id'[h],
                              history |-> [messages |-> chat_history,
                                           pending_messages |-> pending_messages]]>>
            /\ chat_history' = chat_history
            /\ pending_messages' = pending_messages

RECURSIVE ClientCopy(_, _)
ClientCopy(copy, received) ==
    IF received = <<>> THEN copy
    ELSE LET m == Head(received)
             streams == {i \in DOMAIN copy :
                            copy[i].type = "agent-stream" /\ copy[i].id = m.id}
         IN IF m.type \in {"human", "agent", "agent-stream"}
            THEN ClientCopy(copy \o <<m>>, Tail(received))
            ELSE IF m.type = "agent-stream-chunk" /\ streams # {}
            THEN LET t == CHOOSE i \in streams : \A j \in streams : j <= i
                 IN ClientCopy([copy EXCEPT ![t].body = copy[t].body \o m.body,
                                            ![t].complete = m.complete],
                               Tail(received))
            ELSE ClientCopy(copy, Tail(received))

\* every broadcast made while client h is registered is in its outbox, once,
\* in order
ReceivedEveryBroadcast(h) ==
    \E k \in 0..Len(broadcasts) :
        Tail(outbox[h]) = SubSeq(broadcasts, k + 1, Len(broadcasts))

C20_ClientCopyIsHistory ==
    \A h \in Handlers :
        hstate[h] = "open" =>
            /\ ReceivedEveryBroadcast(h)
            /\ ClientCopy(outbox[h][1].history.messages, Tail(outbox[h])) = chat_history

HistoryIndex(n) ==
    IF \E i \in DOMAIN chat_history : chat_history[i].obj = n
    THEN CHOOSE i \in DOMAIN chat_history : chat_history[i].obj = n
    ELSE 0

\* the chat handler of task t has been invoked
HandlerStarted(t) == tasks[t].pc \in {"awaiting", "done"}

\* the step that creates a routing task has written its human message to
\* every connected client and appended it to the history, with no handler
\* started; the step that starts a handler finds the message in the history
C21_Step ==
    /\ Len(tasks') = Len(tasks) + 1 =>
          LET t == Len(tasks') IN
          /\ tasks'[t].pc = "scheduled"
          /\ chat_history' = Append(chat_history, tasks'[t].message)
          /\ \A h \in Handlers :
                hstate[h] = "open" => outbox'[h] = Append(outbox[h], tasks'[t].message)
    /\ \A t \in DOMAIN tasks :
          ~HandlerStarted(t) /\ HandlerStarted(t)' =>
              /\ HistoryIndex(tasks[t].message.obj) > 0
              /\ chat_history[HistoryIndex(tasks[t].message.obj)] = tasks[t].message

\* every reply a handler has broadcast is in the history, after the human
\* message it answers
C21_RepliesFollow ==
    \A n \in DOMAIN broadcasts :
        "reply_to" \in DOMAIN broadcasts[n] =>
            \E t \in DOMAIN tasks :
                /\ tasks[t].message.id = broadcasts[n].reply_to
                /\ HistoryIndex(tasks[t].message.obj) > 0
                /\ HistoryIndex(n) > HistoryIndex(tasks[t].message.obj)

HeldBy(h) ==
    SelectSeq(outbox[h], LAMBDA m : m.type \in ChatTypes)

\* C22: a chat message that broadcast_message has written to at least one
\* client is in the shared chat history when broadcast_message ends, also
\* when a write to a registered client fails: no client holds a chat
\* message that the history lacks.
C22_HistoryHasWhatClientsHold ==
    \A h \in Handlers :
        \A i \in DOMAIN HeldBy(h) :
            \E j \in DOMAIN chat_history : chat_history[j].obj = HeldBy(h)[i].obj

\* the objects of a list of messages, in order
Objects(list) == [i \in DOMAIN list |-> list[i].obj]

\* the most recent agent-stream entry of the history with the id of chunk
\* (0: there is none)
LatestStreamWithId(hist, chunk) ==
    IF \E i \in DOMAIN hist : hist[i].type = "agent-stream" /\ hist[i].id = chunk.id
    THEN CHOOSE i \in DOMAIN hist :
            /\ hist[i].type = "agent-stream" /\ hist[i].id = chunk.id
            /\ \A j \in DOMAIN hist :
                  hist[j].type = "agent-stream" /\ hist[j].id = chunk.id => j <= i
    ELSE 0

C23_BroadcastStep ==
    Len(broadcasts') = Len(broadcasts) + 1 =>
        LET m == Last(broadcasts') IN
        /\ m.type \in {"pending", "close-pending", "agent-stream-chunk"} =>
              Objects(chat_history') = Objects(chat_history)
        /\ m.type = "agent-stream-chunk" =>
              LET t == LatestStreamWithId(chat_history, m) IN
              /\ \A i \in DOMAIN chat_history :
                    i # t => chat_history'[i] = chat_history[i]
              /\ t = 0 => /\ chat_history' = chat_history
                          /\ pending_messages' = pending_messages
        /\ m.type \in ChatTypes => pending_messages' = pending_messages

\* C23: broadcasting a pending, close-pending or stream chunk message never
\* changes the length or order of the chat history; a chunk modifies at most
\* one entry, the most recent agent-stream entry with its id, and without
\* such an entry leaves history and pending list unchanged; broadcasting a
\* chat message leaves the pending list unchanged.
C23_BroadcastFrame == [][C23_BroadcastStep]_vars

\* a chunk was broadcast while the history held two stream messages with its
\* id; the older one is as it was
C23_Witness ==
    /\ Len(broadcasts) = 3
    /\ broadcasts[3].type = "agent-stream-chunk"
    /\ Len(chat_history) = 2
    /\ chat_history[1] = broadcasts[1]
    /\ chat_history[1].type = "agent-stream"
    /\ chat_history[1].id = broadcasts[3].id
    /\ chat_history[2].type = "agent-stream"
    /\ chat_history[2].id = broadcasts[3].id
    /\ chat_history[2].body = broadcasts[3].body

C24_ReceiveStep ==
    /\ Len(on_message_calls') = Len(on_message_calls) + 1
    /\ "prompt" \notin DOMAIN Last(on_message_calls').payload
    =>
            /\ outbox' = outbox
            /\ chat_history' = chat_history
            /\ pending_messages' = pending_messages
            /\ root_chat_handlers' = root_chat_handlers
            /\ chat_clients' = chat_clients
            /\ tasks' = tasks

\* C24: when a received websocket payload does not validate as a
\* ChatRequest, on_message changes nothing: no message is written to any
\* client, the chat history and the pending list are unchanged, the client
\* registry is unchanged, and no routing task is created.
C24_InvalidPayloadChangesNothing == [][C24_ReceiveStep]_vars

\* a chat request, then a payload that is no JSON and one without prompt,
\* with two clients connected: one history entry, one task, one message each
C24_Witness ==
    /\ Len(on_message_calls) = 3
    /\ "prompt" \in DOMAIN on_message_calls[1].payload
    /\ on_message_calls[2].outcome = "JSONDecodeError"
    /\ on_message_calls[3] = [payload |-> [other |-> 0], outcome |-> "returns"]
    /\ Len(chat_history) = 1
    /\ Len(tasks) = 1
    /\ \A h \in Handlers : hstate[h] = "open" /\ Len(outbox[h]) = 2

(***************************************************************************)
(* Properties of the providers' failure reports.                           *)
(***************************************************************************)
\* what _call returns for the failure that a finished provider call met
\* (None: it met none): no endpoint, no CDP token, or a request that raised
FailureText(outcome) ==
    IF lm_endpoint = <<>> THEN Some(EndpointError)
    ELSE IF Falsy(GetCDPToken) THEN Some(TokenError)
    ELSE IF outcome.value = Some(RequestError) THEN Some(RequestError)
    ELSE None

\* what the consumer of the generator _stream receives: the chunks it
\* yields; its return value ends the iteration and is not delivered
ConsumerReceives(outcome) == outcome.yielded

\* C25: the streaming and the non-streaming path report failures alike: when
\* the endpoint cannot be resolved, the CDP token cannot be obtained or the
\* HTTP request fails, the consumer of _stream receives the error text that
\* _call returns for that failure, not an empty stream.
C25_StreamReportsFailuresLikeCall ==
    /\ returned # <<>> /\ returned[1].fn = "_call" =>
          (FailureText(returned[1]) # None =>
              returned[1].value = FailureText(returned[1]))
    /\ returned # <<>> /\ returned[1].fn = "_stream" =>
          (FailureText(returned[1]) # None =>
              ConsumerReceives(returned[1]) = <<FailureText(returned[1])[1]>>)

(***************************************************************************)
(* Properties of the evaluation tools.                                     *)
(***************************************************************************)
\* C26: in GetRating.run_loop, after any sequence of key presses and
\* redraws, the scroll offsets stay in range, 0 <= prompt_line_on and
\* 0 <= resp_line_on, also when the text is shorter than its window; and
\* current_rating stays in 0..len(options)-1 and is the value returned on
\* Enter.
C26_OffsetsAndRatingInRange ==
    rating_pc # "idle" =>
        /\ 0 <= prompt_line_on
        /\ 0 <= resp_line_on
        /\ current_rating \in 0..(Len(options) - 1)
        /\ rating_pc = "returned" => rating_result = Some(current_rating)

\* the text that the chunks of llm_chain.stream carry, in order
RECURSIVE StreamedText(_)
StreamedText(chunks) ==
    IF chunks = <<>> THEN <<>>
    ELSE (IF model_provider = "bedrock" THEN Head(chunks) ELSE Head(chunks).content)
         \o StreamedText(Tail(chunks))

\* collect_streaming_data returned a record, and streaming is not tried
\* for a provider that does not support it
C27_NeverPropagates ==
    collected # <<>> =>
        /\ collected[1].raised = "none"
        /\ ~supports_streaming => collected[1].calls = <<"invoke">>

\* the statement as it stands: whenever streaming is supported and raises,
\* one non-streaming invocation, the streaming error's message, the
\* non-streaming result alone and -1 chunks
C27_FallbackRecord ==
    collected # <<>> /\ supports_streaming /\ llm_stream.raises =>
        LET data == collected[1].data IN
        /\ Count("invoke", collected[1].calls) = 1
        /\ data.errors_in_jupyterai
        /\ data.error_message = StreamError
        /\ llm_invoke.kind = "returns" => get_generation(data) = llm_invoke.text
        /\ data.num_generation_chunks = -1

\* C27 as stated: collect_streaming_data never propagates a model failure;
\* when the provider reports streaming support and streaming raises, the
\* non-streaming invocation is attempted exactly once, and the returned
\* record has errors_in_jupyterai true with the streaming error's message,
\* the non-streaming result alone as its generation and
\* num_generation_chunks -1; without streaming support, streaming is never
\* attempted.
C27_FallbackAlwaysGivesResult == C27_NeverPropagates /\ C27_FallbackRecord

\* the record when the non-streaming invocation returns, and when it raises
\* as well: then the message is that of the second failure, and the text and
\* the number of chunks are those streamed before the first
C27_FallbackRecordByOutcome ==
    collected # <<>> /\ supports_streaming /\ llm_stream.raises =>
        LET data == collected[1].data IN
        /\ Count("invoke", collected[1].calls) = 1
        /\ data.errors_in_jupyterai
        /\ llm_invoke.kind = "returns" =>
              /\ data.error_message = StreamError
              /\ get_generation(data) = llm_invoke.text
              /\ data.num_generation_chunks = -1
        /\ llm_invoke.kind = "raises" =>
              /\ data.error_message = InvokeError
              /\ get_generation(data) = StreamedText(llm_stream.chunks)
              /\ data.num_generation_chunks = Len(llm_stream.chunks)

\* C27, amended: collect_streaming_data never propagates a model failure;
\* when streaming is supported and raises, the non-streaming invocation is
\* attempted exactly once and errors_in_jupyterai is true; if that
\* invocation returns, the record has the streaming error's message, the
\* non-streaming result alone and -1 chunks; if it raises too, the record
\* has its message and keeps the text and chunk count streamed so far;
\* without streaming support, streaming is never attempted.
C27_FallbackGivesResultIfItReturns == C27_NeverPropagates /\ C27_FallbackRecordByOutcome

\* two chunks were streamed before the stream raised, and the record holds
\* the text of the invocation only
C27_Witness ==
    /\ collected # <<>>
    /\ supports_streaming
    /\ llm_stream.raises
    /\ Len(llm_stream.chunks) = 2
    /\ llm_invoke.kind = "returns"
    /\ llm_invoke.text # <<>>
    /\ collected[1].calls = <<"stream", "invoke">>
    /\ get_generation(collected[1].data) = llm_invoke.text
    /\ collected[1].data.generation # llm_invoke.text
    /\ collected[1].data.num_generation_chunks = -1
    /\ collected[1].data.error_message = StreamError

====
